---- MODULE Spec2Model ----
(***************************************************************************)
(* A model of python-schoof: the algebraic tower (integers, quotient       *)
(* rings, polynomials, fraction fields, elliptic curves, curve             *)
(* polynomials, division polynomials) and the number-theoretic support     *)
(* code, written operator by operator from the Python sources.             *)
(*                                                                         *)
(* Conventions.  A Python call that may raise is modelled by a record      *)
(* [exc |-> <name of the exception, or "none">, val |-> <returned value>]. *)
(* An element of QuotientRing(Integers, m) is its remainder, an integer in *)
(* 0..m-1.  A Polynomials element over GF(p) is its coefficient list in    *)
(* ascending order without trailing zeros.                                 *)
(***************************************************************************)
EXTENDS Integers, Sequences, FiniteSets, TLC

VARIABLES
    debug,          \* __debug__: TRUE unless the interpreter runs with -O
    congruences,    \* solve_congruence_equations: the argument list
    crtResult,      \* solve_congruence_equations: what the call produced
    quotient_ring,  \* a QuotientRing: the ring of representatives and the modulus
    operands,       \* two elements of quotient_ring: << self, other >>
    quotResult,     \* the operation applied to the operands and what it produced
    coefficient_field,  \* Polynomials: the size n of the coefficient ring Z/nZ
    polyOperands,   \* two polynomials: << self, other >>
    polyResult,     \* what divmod( self, other ) produced
    curve,          \* an EllipticCurve template: the field size and A, B
    cpOperands,     \* two curve polynomials: << self, other >>
    cpResult,       \* what divmod( self, other ) produced
    integral_domain,    \* FractionField: the size p of the domain GF(p)
    fractions,      \* the FractionField elements that exist
    fracResult,     \* the last operation, its arguments and what it produced
    ecCurve,        \* an EllipticCurve template: the field size and A, B
    points,         \* the point objects of ecCurve that exist
    ecResult,       \* the last operation, its arguments and what it produced
    curve_polynomials,  \* DivisionPolynomialsList: the curve of its polynomial ring
    psi,            \* DivisionPolynomialsList.__psi, the cache; << >> is None
    allocated,      \* the number of polynomial objects put into the cache so far
    dpResult,       \* the last __getitem__: its index and what it produced
    schoofCurve,    \* frobenius_trace: the curve, its field size and A, B
    variant,        \* the variant of frobenius_trace that runs: naive or reduced
    pc,             \* the position in frobenius_trace
    torsion_primes, \* the primes that the loop of frobenius_trace has not reached
    trace_congruences,      \* frobenius_trace: the congruences collected
    division_polynomials,   \* the cache of the list of the LTorsionGroup class
    torsion_group,  \* the torsion group at hand: torsion, modulus psi, its point
    locals,         \* the local variables of frobenius_trace_mod_l and __mul__
    traces,         \* what frobenius_trace of either variant produced
    invocation,     \* a call of a library function: its name and its arguments
    outcome,        \* what the call of invocation produced
    input_file,     \* ParallelParser: the lines of the parsed file, by their kind
    pipe_name,      \* the file that the name file.pipe leads to; 0 when there is none
    pipe_files,     \* the contents of every communication file created so far
    instances,      \* the ParallelParser of every process: position and local variables
    yields,         \* how often each line of input_file has been yielded
    graph_functions,    \* CallGraph: the offsets of every Function of the graph
    graph_calls,    \* CallGraph: the data of the Call of every (caller, callee)
    shared_list,    \* a DivisionPolynomialsList used by threads: its lists, __psi, __y
    threads,        \* the position and local variables of every thread in __getitem__
    mutex           \* the lock of the host around __getitem__, if it has one

crtVars == << congruences, crtResult >>

quotVars == << quotient_ring, operands, quotResult >>

polyVars == << coefficient_field, polyOperands, polyResult >>

cpVars == << curve, cpOperands, cpResult >>

fracVars == << integral_domain, fractions, fracResult >>

ecVars == << ecCurve, points, ecResult >>

dpVars == << curve_polynomials, psi, allocated, dpResult >>

schoofVars ==
    << schoofCurve, variant, pc, torsion_primes, trace_congruences,
       division_polynomials, torsion_group, locals, traces >>

callVars == << invocation, outcome >>

parserVars == << input_file, pipe_name, pipe_files, instances, yields >>

graphVars == << graph_functions, graph_calls >>

threadVars == << shared_list, threads, mutex >>

vars ==
    << debug, crtVars, quotVars, polyVars, cpVars, fracVars, ecVars, dpVars,
       schoofVars, callVars, parserVars, graphVars, threadVars >>

\* The sizes of the explored instances.
MaxModulus == 5

MaxCongruences == 3

MaxIntModulus == 10

MaxModulusDegree == 2

MaxCoefficients == 3

MaxCurveCoefficients == 2

MaxFractions == 2

MaxPoints == 2

MaxScalar == 5

MaxIndex == 6

\* The marker of "not called yet" in every result variable.
NotCalled == [exc |-> "pending", val |-> << >>]

Ok(v) == [exc |-> "none", val |-> v]

Raise(e) == [exc |-> e, val |-> << >>]

----------------------------------------------------------------------------
(* Python integers *)

\* Python's // on integers: floor division, also for a negative divisor.
PyFloorDiv(a, b) == IF b > 0 THEN a \div b ELSE (-a) \div (-b)

\* Python's % on integers: the remainder has the sign of the divisor.
PyMod(a, b) == a - b * PyFloorDiv(a, b)

\* Python's divmod() on integers.
PyDivMod(a, b) == << PyFloorDiv(a, b), PyMod(a, b) >>

----------------------------------------------------------------------------
(* rings/quotients/naive.py over rings/integers/naive.py: the elements of  *)
(* QuotientRing(Integers, m), which are also those of FiniteField(m).      *)

\* GenericQuotientClass.__init__: the representative is reduced.
QuotientClass(m, representative) == PyMod(representative, m)

\* GenericQuotientClass.__add__, __neg__, __mul__ and the derived __sub__.
QAdd(m, a, b) == QuotientClass(m, a + b)

QNeg(m, a) == QuotientClass(m, -a)

QMul(m, a, b) == QuotientClass(m, a * b)

QSub(m, a, b) == QAdd(m, a, QNeg(m, b))

\* The while loop of GenericQuotientClass.multiplicative_inverse over the
\* integers: runs until the remainder of c by d is zero.
RECURSIVE InverseLoop(_, _, _, _, _)
InverseLoop(c, d, quotient, annulating_scalar, previous_scalar) ==
    IF PyMod(c, d) = 0
    THEN annulating_scalar
    ELSE LET c2 == d
             d2 == PyMod(c, d)
             scalar2 == previous_scalar - quotient * annulating_scalar
         IN  InverseLoop(c2, d2, PyFloorDiv(c2, d2), scalar2, annulating_scalar)

\* GenericQuotientClass.multiplicative_inverse for an element a of
\* QuotientRing(Integers, m).
multiplicative_inverse(m, a) ==
    IF a = 0 THEN Raise("ZeroDivisionError")
    ELSE Ok(QuotientClass(m, InverseLoop(m, a, PyFloorDiv(m, a), 1, 0)))

\* GenericQuotientClass.__truediv__: self * other.multiplicative_inverse().
QDiv(m, a, b) ==
    LET inv == multiplicative_inverse(m, b)
    IN  IF inv.exc # "none" THEN inv ELSE Ok(QMul(m, a, inv.val))

\* The derived __pow__: result = self, then one multiplication for each i in
\* range(1, n).
RECURSIVE QPow(_, _, _)
QPow(m, a, n) == IF n <= 1 THEN a ELSE QMul(m, QPow(m, a, n - 1), a)

----------------------------------------------------------------------------
(* rings/polynomials/naive.py: Polynomials over the coefficient ring       *)
(* QuotientRing(Integers, F).                                              *)

\* Polynomials.__remove_leading_zeros: pop while the last entry is zero.
RECURSIVE remove_leading_zeros(_)
remove_leading_zeros(cs) ==
    IF cs = << >> \/ cs[Len(cs)] # 0 THEN cs
    ELSE remove_leading_zeros(SubSeq(cs, 1, Len(cs) - 1))

\* Polynomials.__init__ from a coefficient list: each entry is cast to the
\* coefficient ring and the list of the results is built, then the zeros at
\* the high end are removed.
Polynomial(F, cs) ==
    LET coefficients == [i \in DOMAIN cs |-> QuotientClass(F, cs[i])]
    IN  remove_leading_zeros(SubSeq(coefficients, 1, Len(cs)))

\* The degree of the zero polynomial as Polynomials.degree returns it.
MinusInfinity == -(2 ^ 30)

degree(a) == IF a = << >> THEN MinusInfinity ELSE Len(a) - 1

leading_coefficient(a) == IF a = << >> THEN 0 ELSE a[Len(a)]

\* The Python slice cs[0:n] for n >= 0.
Slice(cs, n) == SubSeq(cs, 1, IF n <= Len(cs) THEN n ELSE Len(cs))

\* Entry i of a list padded with zeros (Polynomials.__pad_and_zip).
Padded(a, i) == IF i <= Len(a) THEN a[i] ELSE 0

PolyAdd(F, a, b) ==
    LET max_length == IF Len(a) >= Len(b) THEN Len(a) ELSE Len(b)
    IN  Polynomial(F, [i \in 1..max_length |-> QAdd(F, Padded(a, i), Padded(b, i))])

PolyNeg(F, a) == Polynomial(F, [i \in DOMAIN a |-> QNeg(F, a[i])])

PolySub(F, a, b) == PolyAdd(F, a, PolyNeg(F, b))

\* The entry of the product at (one-based) position k: what the two loops
\* of Polynomials.__mul__ add to result[k], the sum of the a[i] * b[k + 1 - i]
\* for i from first to last.  The entry starts as zero and the addition of
\* the coefficient ring is associative; the sum is taken in two halves.
RECURSIVE Convolve(_, _, _, _, _, _)
Convolve(F, a, b, k, first, last) ==
    IF first > last THEN 0
    ELSE IF first = last THEN QAdd(F, 0, QMul(F, a[first], b[k + 1 - first]))
    ELSE LET middle == (first + last) \div 2
         IN  QAdd(F, Convolve(F, a, b, k, first, middle),
                     Convolve(F, a, b, k, middle + 1, last))

\* Polynomials.__mul__: a result list of degree(a) + degree(b) + 2 zeros
\* (none if that is not positive), filled by convolution.
PolyMul(F, a, b) ==
    LET size == degree(a) + degree(b) + 2
    IN  IF size <= 0 THEN << >>
        ELSE Polynomial(F, [k \in 1..size |->
                 Convolve(F, a, b, k, IF k > Len(b) THEN k + 1 - Len(b) ELSE 1,
                          IF k < Len(a) THEN k ELSE Len(a))])

\* DivStep with the multiple of the divisor added, not subtracted.
DivStepAdding(F, dividend, divisor, n, k, q) ==
    SubSeq([j \in DOMAIN dividend |->
               IF j - 1 >= k /\ j - 1 < n + k
               THEN QAdd(F, dividend[j], QMul(F, q, divisor[j - k]))
               ELSE dividend[j]], 1, Len(dividend))

\* One pass of the outer loop of Polynomials.__divmod__ for the (zero-based)
\* quotient position k: the new dividend list.
DivStep(F, dividend, divisor, n, k, q) ==
    SubSeq([j \in DOMAIN dividend |->
               IF j - 1 >= k /\ j - 1 < n + k
               THEN QSub(F, dividend[j], QMul(F, q, divisor[j - k]))
               ELSE dividend[j]], 1, Len(dividend))

\* The outer loop of Polynomials.__divmod__ for k from first down to last, on
\* state = << quotient, dividend >>; an exception of the coefficient division
\* ends it.  The passes are taken in two halves, the upper one first.
RECURSIVE DivLoop(_, _, _, _, _, _)
DivLoop(F, state, divisor, n, first, last) ==
    IF state.exc # "none" \/ first < last THEN state
    ELSE IF first = last
    THEN LET quotient == state.val[1]
             dividend == state.val[2]
             q == QDiv(F, dividend[n + first + 1], divisor[n + 1])
         IN  IF q.exc # "none" THEN q
             ELSE Ok(<< [quotient EXCEPT ![first + 1] = q.val],
                        DivStep(F, dividend, divisor, n, first, q.val) >>)
    ELSE LET middle == (first + last + 1) \div 2
         IN  DivLoop(F, DivLoop(F, state, divisor, n, first, middle), divisor,
                     n, middle - 1, last)

\* Polynomials.__divmod__(self, other): << quotient, remainder >>.  With the
\* zero polynomial as divisor, n is -2^30 and the first index into the empty
\* divisor list is out of range.
PolyDivMod(F, a, b) ==
    LET n == degree(b)
        size == degree(a) - n + 1
    IN  IF b = << >> THEN Raise("IndexError")
        ELSE IF size <= 0 THEN Ok(<< << >>, Polynomial(F, Slice(a, n)) >>)
        ELSE LET r == DivLoop(F, Ok(<< [k \in 1..size |-> 0], a >>), b, n,
                              size - 1, 0)
             IN  IF r.exc # "none" THEN r
                 ELSE Ok(<< Polynomial(F, r.val[1]),
                            Polynomial(F, Slice(r.val[2], n)) >>)

----------------------------------------------------------------------------
(* rings/quotients/naive.py over rings/polynomials/naive.py: the elements  *)
(* of QuotientRing(Polynomials(GF(F)), m), each one its remainder.         *)

\* GenericQuotientClass.__init__: representative % modulus, which is the
\* second component of Polynomials.__divmod__.
PQuotientClass(F, m, representative) == PolyDivMod(F, representative, m).val[2]

PQAdd(F, m, a, b) == PQuotientClass(F, m, PolyAdd(F, a, b))

PQNeg(F, m, a) == PQuotientClass(F, m, PolyNeg(F, a))

PQMul(F, m, a, b) == PQuotientClass(F, m, PolyMul(F, a, b))

\* The while loop of GenericQuotientClass.multiplicative_inverse over
\* polynomials, entered with quotient, remainder = divmod(c, d).
RECURSIVE PInverseLoop(_, _, _, _, _, _)
PInverseLoop(F, d, quotient, remainder, annulating_scalar, previous_scalar) ==
    IF remainder = << >>
    THEN annulating_scalar
    ELSE LET qr == PolyDivMod(F, d, remainder).val
             scalar2 == PolySub(F, previous_scalar,
                                PolyMul(F, quotient, annulating_scalar))
         IN  PInverseLoop(F, remainder, qr[1], qr[2], scalar2, annulating_scalar)

\* GenericQuotientClass.multiplicative_inverse for an element a of
\* QuotientRing(Polynomials(GF(F)), m).
Pmultiplicative_inverse(F, m, a) ==
    IF a = << >> THEN Raise("ZeroDivisionError")
    ELSE LET qr == PolyDivMod(F, m, a).val
         IN  Ok(PQuotientClass(F, m,
                    PInverseLoop(F, a, qr[1], qr[2], << 1 >>, << >>)))

\* GenericQuotientClass.__truediv__.
PQDiv(F, m, a, b) ==
    LET inv == Pmultiplicative_inverse(F, m, b)
    IN  IF inv.exc # "none" THEN inv ELSE Ok(PQMul(F, m, a, inv.val))

\* The operations of a quotient ring R given as a record: over the integers
\* [ring |-> "Integers", modulus |-> n], over polynomials
\* [ring |-> "Polynomials", field |-> F, modulus |-> m].
RMul(R, a, b) ==
    IF R.ring = "Integers" THEN QMul(R.modulus, a, b)
    ELSE PQMul(R.field, R.modulus, a, b)

\* QuotientRing.one.
ROne(R) ==
    IF R.ring = "Integers" THEN QuotientClass(R.modulus, 1)
    ELSE PQuotientClass(R.field, R.modulus, << 1 >>)

RInverse(R, a) ==
    IF R.ring = "Integers" THEN multiplicative_inverse(R.modulus, a)
    ELSE Pmultiplicative_inverse(R.field, R.modulus, a)

RDiv(R, a, b) ==
    IF R.ring = "Integers" THEN QDiv(R.modulus, a, b)
    ELSE PQDiv(R.field, R.modulus, a, b)

----------------------------------------------------------------------------
(* elliptic_curves/polynomials/naive.py: CurvePolynomials over the curve   *)
(* E = [field |-> p, A |-> a, B |-> b].  An element a(x) + y * b(x) is the *)
(* record of its two univariate polynomials.                               *)

\* CurvePolynomials.__init__ from two coefficient lists.
CurvePolynomial(E, x_factor, y_factor) ==
    [x_factor |-> Polynomial(E.field, x_factor),
     y_factor |-> Polynomial(E.field, y_factor)]

ZeroCurvePolynomial == [x_factor |-> << >>, y_factor |-> << >>]

\* A zero of the univariate ring Polynomials, as polynomial_ring().zero()
\* returns it: an object with coefficients only, without x_factor, y_factor.
UnivariateZero == [coefficients |-> << >>]

\* The value is an element of CurvePolynomials.
IsCurvePolynomial(v) == DOMAIN v = { "x_factor", "y_factor" }

\* The value as the operand casting of CurvePolynomials reads it.
AsCurvePolynomial(E, v) ==
    IF IsCurvePolynomial(v) THEN v ELSE CurvePolynomial(E, v.coefficients, << >>)

\* CurvePolynomials.__bool__
CPBool(s) == s.x_factor # << >> \/ s.y_factor # << >>

\* CurvePolynomials.y2_reduction: x^3 + A x + B.
y2_reduction(E) == Polynomial(E.field, << E.B, E.A, 0, 1 >>)

CPAdd(E, s, t) ==
    [x_factor |-> PolyAdd(E.field, s.x_factor, t.x_factor),
     y_factor |-> PolyAdd(E.field, s.y_factor, t.y_factor)]

CPNeg(E, s) ==
    [x_factor |-> PolyNeg(E.field, s.x_factor),
     y_factor |-> PolyNeg(E.field, s.y_factor)]

\* CurvePolynomials.__mul__: the product of the canonical forms, y^2
\* replaced by y2_reduction.
CPMul(E, s, t) ==
    LET F == E.field
        x == PolyMul(F, s.x_factor, t.x_factor)
        xy == PolyMul(F, s.x_factor, t.y_factor)
        yx == PolyMul(F, s.y_factor, t.x_factor)
    IN  [x_factor |->
            IF s.y_factor # << >> /\ t.y_factor # << >>
            THEN PolyAdd(F, x, PolyMul(F, PolyMul(F, s.y_factor, t.y_factor),
                                       y2_reduction(E)))
            ELSE x,
         y_factor |-> PolyAdd(F, xy, yx)]

\* The derived __sub__ and __pow__ of CurvePolynomials.
CPSub(E, s, t) == CPAdd(E, s, CPNeg(E, t))

RECURSIVE CPPow(_, _, _)
CPPow(E, s, n) == IF n <= 1 THEN s ELSE CPMul(E, CPPow(E, s, n - 1), s)

\* The derived __pow__ and __floordiv__ of Polynomials.  The loop of __pow__
\* is result = result * self for each i in range(1, n); every product is a
\* value before the loop goes on.
RECURSIVE PolyPowLoop(_, _, _, _)
PolyPowLoop(F, result, a, count) ==
    IF count <= 0 THEN result
    ELSE CHOOSE power \in { PolyPowLoop(F, product, a, count - 1) :
                                product \in { PolyMul(F, result, a) } } : TRUE

PolyPow(F, a, n) == PolyPowLoop(F, a, a, n - 1)

PolyFloorDiv(F, a, b) == PolyDivMod(F, a, b).val[1]

\* CPDivMod with a test for the unsupported case that forgets the x-part of
\* the divisor.
CPDivModForgetful(E, s, d) ==
    LET F == E.field
    IN  IF ~CPBool(d) THEN Raise("ZeroDivisionError")
        ELSE IF ~CPBool(s) THEN Ok(<< UnivariateZero, UnivariateZero >>)
        ELSE IF d.y_factor # << >> /\ s.x_factor # << >>
        THEN Raise("ValueError")
        ELSE IF d.x_factor # << >>
        THEN LET x == PolyDivMod(F, s.x_factor, d.x_factor).val
                 y == PolyDivMod(F, s.y_factor, d.x_factor).val
             IN  Ok(<< [x_factor |-> x[1], y_factor |-> y[1]],
                       [x_factor |-> x[2], y_factor |-> y[2]] >>)
        ELSE Raise("AttributeError")

\* CurvePolynomials.__divmod__(self, other).  In the last case, where self
\* and other have y-parts only, the zero for the y-parts is asked of a
\* univariate polynomial, polynomial_ring().zero().x_factor(), and that
\* object has no such attribute.
CPDivMod(E, s, d) ==
    LET F == E.field
    IN  IF ~CPBool(d) THEN Raise("ZeroDivisionError")
        ELSE IF ~CPBool(s) THEN Ok(<< UnivariateZero, UnivariateZero >>)
        ELSE IF d.y_factor # << >> /\ (s.x_factor # << >> \/ d.x_factor # << >>)
        THEN Raise("ValueError")
        ELSE IF d.x_factor # << >>
        THEN LET x == PolyDivMod(F, s.x_factor, d.x_factor).val
                 y == PolyDivMod(F, s.y_factor, d.x_factor).val
             IN  Ok(<< [x_factor |-> x[1], y_factor |-> y[1]],
                       [x_factor |-> x[2], y_factor |-> y[2]] >>)
        ELSE Raise("AttributeError")

----------------------------------------------------------------------------
(* fields/fraction/naive.py: FractionField over the integral domain GF(p). *)
(* An element is the record of its numerator and denominator, two elements *)
(* of GF(p).  The arguments of the constructor are raw integers; an        *)
(* element of GF(p) with remainder r is given as the integer r, which has  *)
(* the same truth value.                                                   *)

\* FractionField.__init__(numerator, denominator): the zero test reads the
\* denominator as given, then both arguments are cast into the domain.
FractionInit(p, numerator, denominator) ==
    IF denominator = 0 THEN Raise("ZeroDivisionError")
    ELSE Ok([numerator |-> QuotientClass(p, numerator),
             denominator |-> QuotientClass(p, denominator)])

\* FractionField.__add__
FractionAdd(p, a, b) ==
    FractionInit(p, QAdd(p, QMul(p, a.numerator, b.denominator),
                            QMul(p, a.denominator, b.numerator)),
                 QMul(p, a.denominator, b.denominator))

\* FractionField.__neg__
FractionNeg(p, a) == FractionInit(p, QNeg(p, a.numerator), a.denominator)

\* Field.__sub__: self.__add__( -other )
FractionSub(p, a, b) ==
    LET negative == FractionNeg(p, b)
    IN  IF negative.exc # "none" THEN negative ELSE FractionAdd(p, a, negative.val)

\* FractionField.__mul__
FractionMul(p, a, b) ==
    FractionInit(p, QMul(p, a.numerator, b.numerator),
                 QMul(p, a.denominator, b.denominator))

\* FractionField.multiplicative_inverse
FractionInverse(p, a) ==
    IF a.numerator = 0 THEN Raise("ZeroDivisionError")
    ELSE FractionInit(p, a.denominator, a.numerator)

----------------------------------------------------------------------------
(* elliptic_curves/naive.py: the points of the curve                       *)
(* E = [field |-> p, A |-> a, B |-> b] over GF(p); dbg is __debug__.       *)

\* PointAtInfinity()
Infinity == [infinite |-> TRUE]

\* The fundamental relation y^2 = x^3 + A x + B as __init__ evaluates it.
OnCurve(E, x, y) ==
    LET p == E.field
    IN  QPow(p, y, 2) =
            QAdd(p, QAdd(p, QPow(p, x, 3), QMul(p, QuotientClass(p, E.A), x)),
                 QuotientClass(p, E.B))

\* EllipticCurve.__init__(x, y): the coordinates are cast into the field;
\* the fundamental relation is an assert statement.
Point(E, dbg, x, y) ==
    LET xx == QuotientClass(E.field, x)
        yy == QuotientClass(E.field, y)
    IN  IF dbg /\ ~OnCurve(E, xx, yy) THEN Raise("AssertionError")
        ELSE Ok([infinite |-> FALSE, x |-> xx, y |-> yy])

\* EllipticCurve.__eq__ and PointAtInfinity.__eq__
PointEq(P, Q) ==
    IF P.infinite THEN Q.infinite
    ELSE IF Q.infinite THEN FALSE
    ELSE P.x = Q.x /\ P.y = Q.y

\* EllipticCurve.__neg__ and PointAtInfinity.__neg__
PointNeg(E, dbg, P) ==
    IF P.infinite THEN Ok(P) ELSE Point(E, dbg, P.x, QNeg(E.field, P.y))

\* The point (u, v) that both addition formulas build from the slope.
FromSlope(E, dbg, P, x2, slope) ==
    LET p == E.field
        u == QAdd(p, QSub(p, QNeg(p, P.x), x2), QPow(p, slope, 2))
        v == QSub(p, QNeg(p, P.y), QMul(p, slope, QSub(p, u, P.x)))
    IN  Point(E, dbg, u, v)

\* EllipticCurve.__generic_add__
generic_add(E, dbg, P, Q) ==
    LET p == E.field
        gamma == QDiv(p, QSub(p, Q.y, P.y), QSub(p, Q.x, P.x))
    IN  IF gamma.exc # "none" THEN gamma
        ELSE FromSlope(E, dbg, P, Q.x, gamma.val)

\* double with the slope (3 x^2 + A) / y, the factor 2 of the denominator
\* lost.
doubleWithoutTwo(E, dbg, P) ==
    LET p == E.field
        delta == QDiv(p, QAdd(p, QMul(p, QuotientClass(p, 3), QPow(p, P.x, 2)),
                              QuotientClass(p, E.A)),
                      P.y)
    IN  IF delta.exc # "none" THEN delta
        ELSE FromSlope(E, dbg, P, P.x, delta.val)

\* EllipticCurve.__double__
double(E, dbg, P) ==
    LET p == E.field
        delta == QDiv(p, QAdd(p, QMul(p, QuotientClass(p, 3), QPow(p, P.x, 2)),
                              QuotientClass(p, E.A)),
                      QMul(p, QuotientClass(p, 2), P.y))
    IN  IF delta.exc # "none" THEN delta
        ELSE FromSlope(E, dbg, P, P.x, delta.val)

\* An addition that returns the right summand whenever it is infinite.
PointAddAbsorbing(E, dbg, P, Q) ==
    IF P.infinite \/ Q.infinite THEN Ok(Q)
    ELSE LET negative == PointNeg(E, dbg, Q)
         IN  IF negative.exc # "none" THEN negative
             ELSE IF PointEq(P, negative.val) THEN Ok(Infinity)
             ELSE IF P.x = Q.x THEN double(E, dbg, P)
             ELSE generic_add(E, dbg, P, Q)

\* An addition that goes to the formulas without comparing with the negative.
PointAddUncompared(E, dbg, P, Q) ==
    IF P.infinite THEN Ok(Q)
    ELSE IF Q.infinite THEN Ok(P)
    ELSE IF P.x = Q.x THEN double(E, dbg, P)
    ELSE generic_add(E, dbg, P, Q)

\* EllipticCurve.__add__ and PointAtInfinity.__add__
PointAdd(E, dbg, P, Q) ==
    IF P.infinite THEN Ok(Q)
    ELSE IF Q.infinite THEN Ok(P)
    ELSE LET negative == PointNeg(E, dbg, Q)
         IN  IF negative.exc # "none" THEN negative
             ELSE IF PointEq(P, negative.val) THEN Ok(Infinity)
             ELSE IF P.x = Q.x THEN double(E, dbg, P)
             ELSE generic_add(E, dbg, P, Q)

\* EllipticCurve.__sub__ and PointAtInfinity.__sub__
PointSub(E, dbg, P, Q) ==
    LET negative == PointNeg(E, dbg, Q)
    IN  IF P.infinite \/ negative.exc # "none" THEN negative
        ELSE PointAdd(E, dbg, P, negative.val)

\* A for loop that makes one pass more.
RECURSIVE MulLoopOnceMore(_, _, _, _, _, _)
MulLoopOnceMore(E, dbg, P, point, i, n) ==
    IF i > n THEN Ok(point)
    ELSE LET sum == PointAdd(E, dbg, point, P)
         IN  IF sum.exc # "none" THEN sum
             ELSE MulLoopOnceMore(E, dbg, P, sum.val, i + 1, n)

\* The for loop of EllipticCurve.__mul__: point += self for i in range(i, n).
RECURSIVE MulLoop(_, _, _, _, _, _)
MulLoop(E, dbg, P, point, i, n) ==
    IF i >= n THEN Ok(point)
    ELSE LET sum == PointAdd(E, dbg, point, P)
         IN  IF sum.exc # "none" THEN sum
             ELSE MulLoop(E, dbg, P, sum.val, i + 1, n)

\* EllipticCurve.__mul__ and PointAtInfinity.__mul__ for an integer n.
PointMul(E, dbg, P, n) ==
    IF P.infinite THEN Ok(P)
    ELSE IF n = 0 THEN Ok(Infinity)
    ELSE MulLoop(E, dbg, P, P, 1, n)

\* n * P for an integer n: int.__mul__ returns NotImplemented, and Python
\* calls EllipticCurve.__rmul__, which returns self * other, or
\* PointAtInfinity.__rmul__, which returns self.
PointRMul(E, dbg, n, P) ==
    IF P.infinite THEN Ok(P) ELSE PointMul(E, dbg, P, n)

----------------------------------------------------------------------------
(* elliptic_curves/division_polynomials/naive.py: DivisionPolynomialsList  *)
(* over the curve E.  The cache is a list of objects, each one the record  *)
(* of its identity and its polynomial; the entry at position j + 1 is      *)
(* psi[j].                                                                 *)

\* The five entries that __generate_up_to puts into an empty cache.
BasePolynomials(E) ==
    LET A == E.A
        B == E.B
    IN  << CurvePolynomial(E, << 0 >>, << 0 >>),
           CurvePolynomial(E, << 1 >>, << 0 >>),
           CurvePolynomial(E, << 0 >>, << 2 >>),
           CurvePolynomial(E, << -(A * A), 12 * B, 6 * A, 0, 3 >>, << 0 >>),
           CurvePolynomial(E, << 0 >>,
               << -4 * (8 * (B * B) + A * A * A), -16 * A * B, -20 * (A * A),
                  80 * B, 20 * A, 0, 4 >>) >>

\* The polynomial that the loop of __generate_up_to appends for index j to
\* the list ps of polynomials.
NextPolynomial(E, ps, j) ==
    LET F == E.field
        k == j \div 2
        p(i) == ps[i + 1]
        InX(a) == [x_factor |-> a, y_factor |-> << >>]
        y == CurvePolynomial(E, << 0 >>, << 1 >>)
    IN  IF j % 2 = 1
        THEN CPSub(E, CPMul(E, p(k + 2), CPPow(E, p(k), 3)),
                      CPMul(E, CPPow(E, p(k + 1), 3), p(k - 1)))
        ELSE IF k % 2 = 0
        THEN CPMul(E, InX(PolyFloorDiv(F, p(k).y_factor, << 2 >>)),
                   CPSub(E, CPMul(E, p(k + 2), CPPow(E, p(k - 1), 2)),
                            CPMul(E, p(k - 2), CPPow(E, p(k + 1), 2))))
        ELSE CPMul(E, CPMul(E, y, InX(PolyFloorDiv(F, p(k).x_factor, << 2 >>))),
                   CPSub(E, CPMul(E, p(k + 2),
                                  InX(PolyPow(F, p(k - 1).y_factor, 2))),
                            CPMul(E, p(k - 2),
                                  InX(PolyPow(F, p(k + 1).y_factor, 2)))))

\* The for loop of __generate_up_to: entries are appended up to index l; the
\* objects take the identities next, next + 1, ...
RECURSIVE GenerateLoop(_, _, _, _)
GenerateLoop(E, cache, next, l) ==
    IF Len(cache) > l THEN cache
    ELSE LET ps == [i \in DOMAIN cache |-> cache[i].polynomial]
             new == [object |-> next,
                     polynomial |-> NextPolynomial(E, ps, Len(cache))]
         IN  GenerateLoop(E, Append(cache, new), next + 1, l)

\* generate_up_to that builds the whole list anew at every call.
generate_anew(E, cache, next, l) ==
    LET base == BasePolynomials(E)
        l2 == IF Len(cache) - 1 > l THEN Len(cache) - 1 ELSE l
    IN  GenerateLoop(E, [i \in 1..5 |-> [object |-> next + i - 1,
                                         polynomial |-> base[i]]],
                     next + 5, l2)

\* DivisionPolynomialsList.__generate_up_to( l ): the cache afterwards.
generate_up_to(E, cache, next, l) ==
    IF cache = << >>
    THEN LET base == BasePolynomials(E)
         IN  GenerateLoop(E, [i \in 1..5 |-> [object |-> next + i - 1,
                                              polynomial |-> base[i]]],
                          next + 5, l)
    ELSE GenerateLoop(E, cache, next, l)

----------------------------------------------------------------------------
(* support/rings.py *)

\* The while loop with the sign of next_scalar turned around.
RECURSIVE EuclidLoopAdding(_, _, _, _)
EuclidLoopAdding(larger_remainder, larger_scalar, lesser_remainder, lesser_scalar) ==
    IF lesser_remainder = 0
    THEN << larger_remainder, larger_scalar >>
    ELSE LET qr == PyDivMod(larger_remainder, lesser_remainder)
             next_scalar == larger_scalar + qr[1] * lesser_scalar
         IN  EuclidLoopAdding(lesser_remainder, lesser_scalar, qr[2], next_scalar)

\* The while loop of extended_euclidean_algorithm on integers: the pairs
\* (remainder, scalar) shift until the lesser remainder is zero.
RECURSIVE EuclidLoop(_, _, _, _)
EuclidLoop(larger_remainder, larger_scalar, lesser_remainder, lesser_scalar) ==
    IF lesser_remainder = 0
    THEN << larger_remainder, larger_scalar >>
    ELSE LET qr == PyDivMod(larger_remainder, lesser_remainder)
             next_scalar == larger_scalar - qr[1] * lesser_scalar
         IN  EuclidLoop(lesser_remainder, lesser_scalar, qr[2], next_scalar)

\* extended_euclidean_algorithm(u, v) on integers: (m, n, d).
extended_euclidean_algorithm(u, v) ==
    IF u = 0 \/ v = 0
    THEN Raise("ZeroDivisionError")
    ELSE LET fin == EuclidLoop(u, 1, v, 0)
             other_scalar == PyFloorDiv(fin[1] - u * fin[2], v)
         IN  Ok(<< fin[2], other_scalar, fin[1] >>)

\* gcd(u, v): the third component.
gcd(u, v) ==
    LET e == extended_euclidean_algorithm(u, v)
    IN  IF e.exc = "none" THEN Ok(e.val[3]) ELSE e

----------------------------------------------------------------------------
(* support/quotients.py *)

\* inverse_modulo(representative, modulus) on integers.
inverse_modulo(representative, modulus) ==
    LET e == extended_euclidean_algorithm(representative, modulus)
    IN  IF e.exc # "none" THEN e
        ELSE IF e.val[3] = 1 THEN Ok(e.val[1])
        ELSE Raise("ValueError")

\* A congruence is an element of QuotientRing(Integers, modulus): the
\* constructor reduces the representative.
Congruence(representative, modulus) ==
    [remainder |-> PyMod(representative, modulus), modulus |-> modulus]

\* The assertion of solve_congruence_equations: the gcds of all pairs of
\* unequal congruences are exactly the set {1}.
PairwiseGcds(cs) ==
    { gcd(cs[i].modulus, cs[j].modulus).val :
        << i, j >> \in { p \in (DOMAIN cs) \X (DOMAIN cs) : cs[p[1]] # cs[p[2]] } }

RECURSIVE ProductOfModuli(_)
ProductOfModuli(cs) ==
    IF cs = << >> THEN 1 ELSE Head(cs).modulus * ProductOfModuli(Tail(cs))

\* The for loop of solve_congruence_equations from position i on; acc is
\* common_representative.  An exception of inverse_modulo ends the loop.
RECURSIVE CrtLoop(_, _, _, _)
CrtLoop(cs, common_modulus, i, acc) ==
    IF i > Len(cs) THEN Ok(acc)
    ELSE LET neutralizer == PyFloorDiv(common_modulus, cs[i].modulus)
             inv == inverse_modulo(neutralizer, cs[i].modulus)
         IN  IF inv.exc # "none" THEN inv
             ELSE CrtLoop(cs, common_modulus, i + 1,
                          acc + cs[i].remainder * neutralizer * inv.val)

\* solve_congruence_equations(congruences); dbg is __debug__.
solve_congruence_equations(cs, dbg) ==
    IF cs = << >> THEN Raise("ValueError")
    ELSE IF dbg /\ PairwiseGcds(cs) # {1} THEN Raise("AssertionError")
    ELSE LET common_modulus == ProductOfModuli(cs)
             sum == CrtLoop(cs, common_modulus, 1, 0)
         IN  IF sum.exc # "none" THEN sum
             ELSE Ok(Congruence(sum.val, common_modulus))

\* The elements of QuotientRing(Integers, m) for the moduli 1..MaxModulus.
Congruences ==
    { Congruence(r, m) : << r, m >> \in
        { rm \in (0..MaxModulus) \X (1..MaxModulus) : rm[1] < rm[2] } }

\* All lists of at most n entries from S, the empty list included.
RECURSIVE ListsUpTo(_, _)
ListsUpTo(S, n) ==
    IF n = 0 THEN { << >> }
    ELSE LET shorter == ListsUpTo(S, n - 1)
         IN  shorter \cup { Append(l, x) : l \in { s \in shorter : Len(s) = n - 1 },
                                           x \in S }

----------------------------------------------------------------------------
(* The specifications.  Each one exercises one part of the library; the    *)
(* variables of the other parts rest at the values given here.             *)

crtIdle == congruences = << >> /\ crtResult = NotCalled

quotIdle ==
    /\ quotient_ring = [ring |-> "Integers", modulus |-> 2]
    /\ operands = << 0, 0 >>
    /\ quotResult = NotCalled

polyIdle ==
    /\ coefficient_field = 2
    /\ polyOperands = << << >>, << >> >>
    /\ polyResult = NotCalled

cpIdle ==
    /\ curve = [field |-> 3, A |-> 1, B |-> 1]
    /\ cpOperands = << ZeroCurvePolynomial, ZeroCurvePolynomial >>
    /\ cpResult = NotCalled

fracIdle ==
    /\ integral_domain = 3
    /\ fractions = { }
    /\ fracResult = NotCalled

ecIdle ==
    /\ ecCurve = [field |-> 5, A |-> 1, B |-> 1]
    /\ points = { }
    /\ ecResult = NotCalled

dpIdle ==
    /\ curve_polynomials = [field |-> 5, A |-> 1, B |-> 1]
    /\ psi = << >>
    /\ allocated = 0
    /\ dpResult = NotCalled

Unset == [unset |-> TRUE]

NoLocals ==
    [trace_candidate |-> 0, frobenius_point |-> Unset,
     frobenius2_point |-> Unset, point_sum |-> Unset, trace_point |-> Unset,
     self |-> Unset, point |-> Unset, i |-> 0, n |-> 0, return |-> "none"]

NoTorsionGroup == [torsion |-> 0, psi |-> ZeroCurvePolynomial, point |-> Unset]

schoofIdle ==
    /\ schoofCurve = [field |-> 7, A |-> 0, B |-> 2]
    /\ variant = "naive"
    /\ pc = "idle"
    /\ torsion_primes = << >>
    /\ trace_congruences = << >>
    /\ division_polynomials = << >>
    /\ torsion_group = NoTorsionGroup
    /\ locals = NoLocals
    /\ traces = [naive |-> NotCalled, reduced |-> NotCalled]

callIdle ==
    /\ invocation = [function |-> "none", arguments |-> << >>]
    /\ outcome = NotCalled

parserIdle ==
    /\ input_file = << >>
    /\ pipe_name = 0
    /\ pipe_files = << >>
    /\ instances = << >>
    /\ yields = << >>

graphIdle == graph_functions = << >> /\ graph_calls = << >>

threadIdle ==
    /\ shared_list = [lists |-> << >>, psi |-> 0, y |-> FALSE]
    /\ threads = << >>
    /\ mutex = [guarded |-> FALSE, holder |-> 0]

\* Every part but part g is at rest.
OthersIdle(g) ==
    /\ IF g = "crt" THEN TRUE ELSE crtIdle
    /\ IF g = "quot" THEN TRUE ELSE quotIdle
    /\ IF g = "poly" THEN TRUE ELSE polyIdle
    /\ IF g = "cp" THEN TRUE ELSE cpIdle
    /\ IF g = "frac" THEN TRUE ELSE fracIdle
    /\ IF g = "ec" THEN TRUE ELSE ecIdle
    /\ IF g = "dp" THEN TRUE ELSE dpIdle
    /\ IF g = "schoof" THEN TRUE ELSE schoofIdle
    /\ IF g = "call" THEN TRUE ELSE callIdle
    /\ IF g = "parser" THEN TRUE ELSE parserIdle
    /\ IF g = "graph" THEN TRUE ELSE graphIdle
    /\ IF g = "thread" THEN TRUE ELSE threadIdle

\* A step of part g leaves the other parts alone.
OthersUnchanged(g) ==
    /\ IF g = "crt" THEN TRUE ELSE UNCHANGED crtVars
    /\ IF g = "quot" THEN TRUE ELSE UNCHANGED quotVars
    /\ IF g = "poly" THEN TRUE ELSE UNCHANGED polyVars
    /\ IF g = "cp" THEN TRUE ELSE UNCHANGED cpVars
    /\ IF g = "frac" THEN TRUE ELSE UNCHANGED fracVars
    /\ IF g = "ec" THEN TRUE ELSE UNCHANGED ecVars
    /\ IF g = "dp" THEN TRUE ELSE UNCHANGED dpVars
    /\ IF g = "schoof" THEN TRUE ELSE UNCHANGED schoofVars
    /\ IF g = "call" THEN TRUE ELSE UNCHANGED callVars
    /\ IF g = "parser" THEN TRUE ELSE UNCHANGED parserVars
    /\ IF g = "graph" THEN TRUE ELSE UNCHANGED graphVars
    /\ IF g = "thread" THEN TRUE ELSE UNCHANGED threadVars

----------------------------------------------------------------------------
(* support/quotients.py: the Chinese Remainder Theorem *)

InitCRT ==
    /\ debug \in BOOLEAN
    /\ congruences \in ListsUpTo(Congruences, MaxCongruences)
    /\ crtResult = NotCalled
    /\ OthersIdle("crt")

\* One call solve_congruence_equations( congruences ).
SolveCongruenceEquations ==
    /\ crtResult = NotCalled
    /\ crtResult' = solve_congruence_equations(congruences, debug)
    /\ UNCHANGED << debug, congruences >>
    /\ OthersUnchanged("crt")

NextCRT == SolveCongruenceEquations

SpecCRT == InitCRT /\ [][NextCRT]_vars

\* Two integers without a common divisor above 1.
Coprime(m, n) == \A d \in 2..m : ~(m % d = 0 /\ n % d = 0)

\* The moduli at every two positions of the list are coprime.
PairwiseCoprime(cs) ==
    \A i, j \in DOMAIN cs : i # j => Coprime(cs[i].modulus, cs[j].modulus)

\* The result solves every congruence of the list modulo the product.
SolvesAll(cs, res) ==
    /\ res.exc = "none"
    /\ res.val.modulus = ProductOfModuli(cs)
    /\ \A i \in DOMAIN cs :
          res.val.remainder % cs[i].modulus = cs[i].remainder % cs[i].modulus

\* C2: for k >= 2 congruences with pairwise coprime moduli,
\* solve_congruence_equations returns a congruence modulo the product of
\* the moduli whose remainder solves each of them; {2 mod 3, 1 mod 5} gives
\* 11 mod 15.
C2_ChineseRemainder ==
    (crtResult # NotCalled /\ Len(congruences) >= 2 /\ PairwiseCoprime(congruences))
        => /\ SolvesAll(congruences, crtResult)
           /\ congruences = << Congruence(2, 3), Congruence(1, 5) >>
                 => crtResult = Ok(Congruence(11, 15))

\* C2 without the assertion, or with two unequal congruences in the list:
\* what the code does deliver.
C2_ChineseRemainderUnequal ==
    (/\ crtResult # NotCalled
     /\ Len(congruences) >= 2
     /\ PairwiseCoprime(congruences)
     /\ (debug => \E i, j \in DOMAIN congruences : congruences[i] # congruences[j]))
        => /\ SolvesAll(congruences, crtResult)
           /\ congruences = << Congruence(2, 3), Congruence(1, 5) >>
                 => crtResult = Ok(Congruence(11, 15))

\* The list [0 mod 1, 0 mod 1] under __debug__ has no pair of unequal
\* congruences: the assertion compares the empty set with {1} and fails.
C2_AssertionOnEqualCongruences ==
    /\ debug
    /\ congruences = << Congruence(0, 1), Congruence(0, 1) >>
    /\ crtResult = Raise("AssertionError")

C2_ExampleSolved ==
    /\ congruences = << Congruence(2, 3), Congruence(1, 5) >>
    /\ crtResult = Ok(Congruence(11, 15))

----------------------------------------------------------------------------
(* Quotient rings: inverses and division *)

\* The polynomials over GF(F) of degree below n: coefficient lists of at
\* most n entries whose last entry is not zero.
PolynomialsBelow(F, n) ==
    { cs \in ListsUpTo(0..(F - 1), n) : cs = << >> \/ cs[Len(cs)] # 0 }

\* The elements of the quotient ring R: one per remainder.
RElements(R) ==
    IF R.ring = "Integers" THEN 0..(R.modulus - 1)
    ELSE PolynomialsBelow(R.field, degree(R.modulus))

\* The rings Z/nZ for n in 2..MaxIntModulus, among them Z/10Z.
IntegerQuotientRings ==
    { [ring |-> "Integers", modulus |-> n] : n \in 2..MaxIntModulus }

\* The rings GF(3)[x]/(m) for every m of degree 1..MaxModulusDegree.
SmallPolynomialQuotientRings ==
    { [ring |-> "Polynomials", field |-> 3, modulus |-> m] :
        m \in { q \in PolynomialsBelow(3, MaxModulusDegree + 1) : degree(q) >= 1 } }

\* The ring GF(17)[x]/(x^3 + 1) of the test suite.
R17 == [ring |-> "Polynomials", field |-> 17, modulus |-> << 1, 0, 0, 1 >>]

\* Some of its elements: 1, 2, x, x + 1, x + 2, x^2, x^2 - x + 1.
R17Elements ==
    { << 1 >>, << 2 >>, << 0, 1 >>, << 1, 1 >>, << 2, 1 >>, << 0, 0, 1 >>,
      << 1, 16, 1 >> }

InitQuot ==
    /\ debug = TRUE
    /\ OthersIdle("quot")
    /\ \/ /\ quotient_ring \in IntegerQuotientRings \cup SmallPolynomialQuotientRings
          /\ operands \in RElements(quotient_ring) \X RElements(quotient_ring)
       \/ /\ quotient_ring = R17
          /\ operands \in R17Elements \X { << 1 >>, << 0, 1 >> }
    /\ quotResult = NotCalled

\* operands[1].multiplicative_inverse()
MultiplicativeInverse ==
    /\ quotResult = NotCalled
    /\ quotResult' = [op |-> "multiplicative_inverse"] @@
                        RInverse(quotient_ring, operands[1])
    /\ UNCHANGED << debug, quotient_ring, operands >>
    /\ OthersUnchanged("quot")

\* operands[2] / operands[1]
TrueDiv ==
    /\ quotResult = NotCalled
    /\ quotResult' = [op |-> "truediv"] @@
                        RDiv(quotient_ring, operands[2], operands[1])
    /\ UNCHANGED << debug, quotient_ring, operands >>
    /\ OthersUnchanged("quot")

NextQuot == MultiplicativeInverse \/ TrueDiv

SpecQuot == InitQuot /\ [][NextQuot]_vars

\* a is a unit of R: some element of R multiplied with it gives one.
IsUnit(R, a) == \E b \in RElements(R) : RMul(R, a, b) = ROne(R)

\* C3: the multiplicative inverse of a non-unit of a quotient ring, and the
\* division by one, raise ZeroDivisionError; so for 2 in Z/10Z and for
\* x + 1 modulo x^3 + 1 over GF(17).
C3_NonUnitRaises ==
    (quotResult # NotCalled /\ ~IsUnit(quotient_ring, operands[1]))
        => quotResult.exc = "ZeroDivisionError"

\* 2.multiplicative_inverse() in Z/10Z returns the class of 1.
C3_TwoModTenReturns ==
    /\ quotient_ring = [ring |-> "Integers", modulus |-> 10]
    /\ operands[1] = 2
    /\ quotResult = [op |-> "multiplicative_inverse", exc |-> "none", val |-> 1]

\* Only the zero element raises.
C3_OnlyZeroRaises ==
    quotResult # NotCalled =>
        (quotResult.exc = "ZeroDivisionError"
            <=> operands[1] = (IF quotient_ring.ring = "Integers" THEN 0 ELSE << >>))

\* C4: for a unit a of a quotient ring (of the integers or of polynomials),
\* a * a.multiplicative_inverse() is one.
C4_UnitTimesInverseIsOne ==
    (quotResult # NotCalled /\ quotResult.op = "multiplicative_inverse"
        /\ IsUnit(quotient_ring, operands[1]))
        => /\ quotResult.exc = "none"
           /\ RMul(quotient_ring, operands[1], quotResult.val) = ROne(quotient_ring)

\* C4 holds in the quotient rings of the integers.
C4_IntegerUnits ==
    quotient_ring.ring = "Integers" => C4_UnitTimesInverseIsOne

\* The unit 2 of GF(17)[x]/(x^3 + 1) gets the inverse 1.
C4_ConstantTwoGetsOne ==
    /\ quotient_ring = R17
    /\ operands[1] = << 2 >>
    /\ quotResult = [op |-> "multiplicative_inverse", exc |-> "none", val |-> << 1 >>]

----------------------------------------------------------------------------
(* rings/polynomials/naive.py: division with remainder *)

\* The sizes of the coefficient rings: the fields GF(2), GF(3), GF(5) and
\* the ring Z/4Z, in which 2 is not invertible.
CoefficientRingSizes == { 2, 3, 4, 5 }

InitPoly ==
    /\ debug = TRUE
    /\ coefficient_field \in CoefficientRingSizes
    /\ polyOperands \in PolynomialsBelow(coefficient_field, MaxCoefficients)
                        \X PolynomialsBelow(coefficient_field, MaxCoefficients)
    /\ polyResult = NotCalled
    /\ OthersIdle("poly")

\* divmod( polyOperands[1], polyOperands[2] )
DivMod ==
    /\ polyResult = NotCalled
    /\ polyResult' = PolyDivMod(coefficient_field, polyOperands[1], polyOperands[2])
    /\ UNCHANGED << debug, coefficient_field, polyOperands >>
    /\ OthersUnchanged("poly")

NextPoly == DivMod

SpecPoly == InitPoly /\ [][NextPoly]_vars

\* c is invertible in Z/nZ.
Invertible(n, c) == \E b \in 0..(n - 1) : (c * b) % n = 1 % n

----------------------------------------------------------------------------
(* elliptic_curves/polynomials/naive.py: division of curve polynomials *)

\* The curve polynomials whose two parts have at most n coefficients each.
CurvePolynomialsBelow(E, n) ==
    { [x_factor |-> a, y_factor |-> b] :
        a \in PolynomialsBelow(E.field, n), b \in PolynomialsBelow(E.field, n) }

InitCP ==
    /\ debug = TRUE
    /\ curve = [field |-> 3, A |-> 1, B |-> 1]
    /\ cpOperands \in CurvePolynomialsBelow(curve, MaxCurveCoefficients)
                      \X CurvePolynomialsBelow(curve, MaxCurveCoefficients)
    /\ cpResult = NotCalled
    /\ OthersIdle("cp")

\* divmod( cpOperands[1], cpOperands[2] )
CurveDivMod ==
    /\ cpResult = NotCalled
    /\ cpResult' = CPDivMod(curve, cpOperands[1], cpOperands[2])
    /\ UNCHANGED << debug, curve, cpOperands >>
    /\ OthersUnchanged("cp")

NextCP == CurveDivMod

SpecCP == InitCP /\ [][NextCP]_vars

\* The two cases in which the division is supported.
DivisorInXAlone(d) == d.y_factor = << >>

BothInYAlone(s, d) == s.x_factor = << >> /\ d.x_factor = << >>

Supported(s, d) == DivisorInXAlone(d) \/ BothInYAlone(s, d)

\* C6: for curve polynomials s and d, d not zero, in both supported cases
\* divmod(s, d) returns a pair (quotient, remainder) of curve polynomials
\* with s = quotient * d + remainder.
C6_CurveDivisionLaw ==
    (/\ cpResult # NotCalled
     /\ CPBool(cpOperands[2])
     /\ Supported(cpOperands[1], cpOperands[2]))
        => /\ cpResult.exc = "none"
           /\ IsCurvePolynomial(cpResult.val[1])
           /\ IsCurvePolynomial(cpResult.val[2])
           /\ cpOperands[1] =
                 CPAdd(curve, CPMul(curve, cpResult.val[1], cpOperands[2]),
                       cpResult.val[2])

\* C6 for a dividend that is not zero and a divisor in x alone, which is
\* where the code delivers.
C6_DivisorInXAloneLaw ==
    (/\ cpResult # NotCalled
     /\ CPBool(cpOperands[1])
     /\ CPBool(cpOperands[2])
     /\ DivisorInXAlone(cpOperands[2]))
        => /\ cpResult.exc = "none"
           /\ IsCurvePolynomial(cpResult.val[1])
           /\ IsCurvePolynomial(cpResult.val[2])
           /\ cpOperands[1] =
                 CPAdd(curve, CPMul(curve, cpResult.val[1], cpOperands[2]),
                       cpResult.val[2])

\* Dividing y * x by y * (x + 1) ends in AttributeError.
C6_BothInYAloneFails ==
    /\ cpOperands = << [x_factor |-> << >>, y_factor |-> << 0, 1 >>],
                       [x_factor |-> << >>, y_factor |-> << 1, 1 >>] >>
    /\ cpResult = Raise("AttributeError")

\* C7: for a divisor d that is not zero, divmod(s, d) raises ValueError if
\* and only if (s, d) is in neither supported case, for every dividend s,
\* the zero polynomial included.
C7_ValueErrorIffUnsupported ==
    (cpResult # NotCalled /\ CPBool(cpOperands[2]))
        => (cpResult.exc = "ValueError"
                <=> ~Supported(cpOperands[1], cpOperands[2]))

\* C7 as the code has it: for a dividend s and a divisor d that are both not
\* zero, divmod(s, d) raises ValueError if and only if (s, d) is in neither
\* supported case; a zero dividend gives a pair of zeros for every non-zero
\* divisor.
C7_ValueErrorIffUnsupportedNonZero ==
    (cpResult # NotCalled /\ CPBool(cpOperands[2]))
        => IF CPBool(cpOperands[1])
           THEN cpResult.exc = "ValueError"
                    <=> ~Supported(cpOperands[1], cpOperands[2])
           ELSE cpResult = Ok(<< UnivariateZero, UnivariateZero >>)

\* A dividend that is not zero, a divisor with both parts: ValueError.
C7_UnsupportedRaised ==
    /\ CPBool(cpOperands[1])
    /\ cpOperands[2].x_factor # << >>
    /\ cpOperands[2].y_factor # << >>
    /\ cpResult = Raise("ValueError")

----------------------------------------------------------------------------
(* fields/fraction/naive.py: the denominators of the fractions *)

\* The integral domains GF(3) and GF(5).
DomainSizes == { 3, 5 }

\* The integers handed to the constructor: -p..p for the domain GF(p).
RawValues(p) == (-p)..p

InitFrac ==
    /\ debug = TRUE
    /\ integral_domain \in DomainSizes
    /\ fractions = { }
    /\ fracResult = NotCalled
    /\ OthersIdle("frac")

\* An operation ends: its result, if there is one, is one more element.
FracDone(op, args, result) ==
    /\ fracResult' = [op |-> op, args |-> args] @@ result
    /\ fractions' = IF result.exc = "none" THEN fractions \cup { result.val }
                    ELSE fractions
    /\ Cardinality(fractions') <= MaxFractions
    /\ UNCHANGED << debug, integral_domain >>
    /\ OthersUnchanged("frac")

\* FractionField( numerator, denominator )
Construct ==
    \E numerator, denominator \in RawValues(integral_domain) :
        FracDone("init", << numerator, denominator >>,
                 FractionInit(integral_domain, numerator, denominator))

FracAdd ==
    \E a, b \in fractions :
        FracDone("add", << a, b >>, FractionAdd(integral_domain, a, b))

FracSub ==
    \E a, b \in fractions :
        FracDone("sub", << a, b >>, FractionSub(integral_domain, a, b))

FracMul ==
    \E a, b \in fractions :
        FracDone("mul", << a, b >>, FractionMul(integral_domain, a, b))

FracNeg ==
    \E a \in fractions :
        FracDone("neg", << a >>, FractionNeg(integral_domain, a))

FracInverse ==
    \E a \in fractions :
        FracDone("multiplicative_inverse", << a >>,
                 FractionInverse(integral_domain, a))

\* An element is dropped by the program.
FracForget ==
    /\ \E a \in fractions : fractions' = fractions \ { a }
    /\ UNCHANGED << debug, integral_domain, fracResult >>
    /\ OthersUnchanged("frac")

NextFrac ==
    \/ Construct
    \/ FracAdd
    \/ FracSub
    \/ FracMul
    \/ FracNeg
    \/ FracInverse
    \/ FracForget

SpecFrac == InitFrac /\ [][NextFrac]_vars

\* C8: every element of a fraction field has a denominator that is not
\* zero in the integral domain: the constructor raises ZeroDivisionError
\* for a denominator that is zero in the domain, also for a raw value that
\* is zero only after the cast, and add, subtract, multiply, negate and
\* inverse produce no zero denominator.
C8_DenominatorNeverZero ==
    /\ \A f \in fractions : f.denominator # 0
    /\ (fracResult # NotCalled /\ fracResult.op = "init"
            /\ QuotientClass(integral_domain, fracResult.args[2]) = 0)
          => fracResult.exc = "ZeroDivisionError"

\* The part of C8 on the operations: whatever their operands, they return
\* no element with a zero denominator.
C8_OperationsKeepDenominators ==
    (fracResult # NotCalled /\ fracResult.op # "init" /\ fracResult.exc = "none")
        => fracResult.val.denominator # 0

\* FractionField(GF(5))( 1, 5 ) is the fraction 1/0.
C8_RawFiveIsZeroDenominator ==
    /\ integral_domain = 5
    /\ fracResult = [op |-> "init", args |-> << 1, 5 >>, exc |-> "none",
                     val |-> [numerator |-> 1, denominator |-> 0]]

----------------------------------------------------------------------------
(* elliptic_curves/naive.py: the points stay on the curve *)

\* EllipticCurve.is_singular: 4 A^3 + 27 B^2 is zero in the field.
is_singular(E) ==
    LET p == E.field
        A == QuotientClass(p, E.A)
        B == QuotientClass(p, E.B)
    IN  QAdd(p, QMul(p, QuotientClass(p, 4), QPow(p, A, 3)),
             QMul(p, QuotientClass(p, 27), QPow(p, B, 2))) = 0

\* Curves over GF(5) that are not singular: y^2 = x^3 + 1, y^2 = x^3 + x
\* and y^2 = x^3 + x + 1.
Curves ==
    { E \in [field : { 5 }, A : { 0, 1 }, B : { 0, 1 }] : ~is_singular(E) }

InitEC ==
    /\ debug \in BOOLEAN
    /\ ecCurve \in Curves
    /\ points = { }
    /\ ecResult = NotCalled
    /\ OthersIdle("ec")

\* An operation ends: its result, if there is one, is one more point.
ECDone(op, args, result) ==
    /\ ecResult' = [op |-> op, args |-> args] @@ result
    /\ points' = IF result.exc = "none" THEN points \cup { result.val }
                 ELSE points
    /\ Cardinality(points') <= MaxPoints
    /\ UNCHANGED << debug, ecCurve >>
    /\ OthersUnchanged("ec")

\* EllipticCurve( x, y )
ECConstruct ==
    \E x, y \in 0..(ecCurve.field - 1) :
        ECDone("init", << x, y >>, Point(ecCurve, debug, x, y))

\* PointAtInfinity()
ECInfinity == ECDone("infinity", << >>, Ok(Infinity))

\* P + Q; P + P is the doubling.  The program drops the sum at once when
\* it holds MaxPoints other points already.
ECAdd ==
    \E P, Q \in points :
        LET sum == PointAdd(ecCurve, debug, P, Q)
        IN  IF sum.exc = "none" /\ Cardinality(points \cup { sum.val }) > MaxPoints
            THEN /\ ecResult' = [op |-> "add", args |-> << P, Q >>] @@ sum
                 /\ UNCHANGED << debug, ecCurve, points >>
                 /\ OthersUnchanged("ec")
            ELSE ECDone("add", << P, Q >>, sum)

\* -P
ECNeg ==
    \E P \in points :
        ECDone("neg", << P >>, PointNeg(ecCurve, debug, P))

\* P * n
ECMul ==
    \E P \in points, n \in (-1)..MaxScalar :
        ECDone("mul", << P, n >>, PointMul(ecCurve, debug, P, n))

\* n * P
ECRMul ==
    \E P \in points, n \in (-1)..MaxScalar :
        ECDone("rmul", << n, P >>, PointRMul(ecCurve, debug, n, P))

\* A point is dropped by the program.
ECForget ==
    /\ \E P \in points : points' = points \ { P }
    /\ UNCHANGED << debug, ecCurve, ecResult >>
    /\ OthersUnchanged("ec")

NextEC ==
    ECConstruct \/ ECInfinity \/ ECAdd \/ ECNeg \/ ECMul \/ ECRMul \/ ECForget

SpecEC == InitEC /\ [][NextEC]_vars

\* The point is the point at infinity or satisfies the curve equation,
\* computed on the integers.
Satisfies(E, P) ==
    P.infinite \/ (P.y * P.y - (P.x * P.x * P.x + E.A * P.x + E.B)) % E.field = 0

\* The points among the arguments of the last operation.
PointArguments ==
    IF ecResult.op \in { "add" } THEN { ecResult.args[1], ecResult.args[2] }
    ELSE IF ecResult.op \in { "neg", "mul" } THEN { ecResult.args[1] }
    ELSE { }

\* The constructor has raised for coordinates off the curve.
ConstructorRejects ==
    (ecResult # NotCalled /\ ecResult.op = "init"
        /\ ~Satisfies(ecCurve, [infinite |-> FALSE, x |-> ecResult.args[1],
                                                  y |-> ecResult.args[2]]))
        => ecResult.exc = "AssertionError"

\* Addition, doubling, negation and scalar multiplication of points on the
\* curve have returned a point on the curve, if they returned.
ArithmeticStaysOnCurve ==
    (/\ ecResult # NotCalled
     /\ ecResult.op \in { "add", "neg", "mul" }
     /\ ecResult.exc = "none"
     /\ \A P \in PointArguments : Satisfies(ecCurve, P))
        => Satisfies(ecCurve, ecResult.val)

----------------------------------------------------------------------------
(* elliptic_curves/division_polynomials/naive.py: the cache *)

InitDP ==
    /\ debug = TRUE
    /\ curve_polynomials \in Curves
    /\ psi = << >>
    /\ allocated = 0
    /\ dpResult = NotCalled
    /\ OthersIdle("dp")

\* DivisionPolynomialsList.__getitem__( index ) for an index that is not
\* negative; cached tells whether the entry was in the cache before.
GetItem ==
    \E index \in 0..MaxIndex :
        \E cache \in { generate_up_to(curve_polynomials, psi, allocated, index) } :
            /\ psi' = cache
            /\ allocated' = allocated + (Len(cache) - Len(psi))
            /\ dpResult' = [index |-> index, cached |-> index < Len(psi)]
                               @@ Ok(cache[index + 1])
            /\ UNCHANGED << debug, curve_polynomials >>
            /\ OthersUnchanged("dp")

\* DivisionPolynomialsList.__getitem__( index ) for a negative index.
GetItemNegative ==
    \E index \in { -2, -1 } :
        /\ dpResult' = [index |-> index, cached |-> FALSE] @@ Raise("IndexError")
        /\ UNCHANGED << debug, curve_polynomials, psi, allocated >>
        /\ OthersUnchanged("dp")

NextDP == GetItem \/ GetItemNegative

SpecDP == InitDP /\ [][NextDP]_vars

\* The cache has the entries for zero and for one at its first two places.
ZeroAndOne ==
    psi # << >> =>
        /\ psi[1].polynomial = [x_factor |-> << >>, y_factor |-> << >>]
        /\ psi[2].polynomial = [x_factor |-> << 1 >>, y_factor |-> << >>]

\* What __getitem__ returned is the entry of the cache, and a negative index
\* has raised IndexError.
ReturnsCacheEntry ==
    dpResult # NotCalled =>
        IF dpResult.index < 0 THEN dpResult.exc = "IndexError"
        ELSE dpResult = [index |-> dpResult.index, cached |-> dpResult.cached]
                            @@ Ok(psi[dpResult.index + 1])

\* A step keeps every entry of the cache, the same object with the same
\* polynomial, and a call with a negative index keeps the whole cache.
CacheGrowsOnly ==
    /\ Len(psi') >= Len(psi)
    /\ \A i \in DOMAIN psi : psi'[i] = psi[i]
    /\ dpResult'.index < 0 => psi' = psi

\* C10: over every sequence of index requests to one division polynomial
\* list the cache never gets shorter and no entry is replaced or computed
\* again, so that a request for k after a request for l > k returns the same
\* object as before; psi[0] is zero and psi[1] is one; a negative index
\* raises IndexError and leaves the cache as it is.
C10_CacheMonotone ==
    [](ZeroAndOne /\ ReturnsCacheEntry) /\ [][CacheGrowsOnly]_vars

\* psi[5] is requested again after the cache has grown beyond it.
C10_CachedEntryReturned ==
    /\ dpResult # NotCalled
    /\ dpResult.index = 5
    /\ dpResult.cached
    /\ Len(psi) > 6
    /\ dpResult.val = psi[6]

----------------------------------------------------------------------------
(* elliptic_curves/l_torsion_group/naive.py: the point (x, y) over the     *)
(* field T = FractionField( QuotientRing( CurvePolynomials(E), psi[l] ) ). *)
(* The context C is the record of the curve E, the modulus psi and the     *)
(* assertion mode dbg.  A raised exception is the record [exc |-> name],   *)
(* which every operation hands on.                                         *)

Exc(e) == [exc |-> e]

IsExc(v) == DOMAIN v = { "exc" }

\* An operation of one or two operands that hands an exception on.
Lift1(a, Op(_)) == IF IsExc(a) THEN a ELSE Op(a)

Lift2(a, b, Op(_, _)) == IF IsExc(a) THEN a ELSE IF IsExc(b) THEN b ELSE Op(a, b)

\* The operations on elements of S and T and on points over T by name: the
\* operators of Python are looked up in the class of the left operand.
RECURSIVE Apply(_, _, _)

\* GenericQuotientClass.__init__ for S = QuotientRing(R, psi): the
\* remainder of the representative, which for a zero representative is the
\* zero of the univariate polynomials.
SClass(C, representative) == CPDivMod(C.E, representative, C.psi).val[2]

\* R( k ) as an element of S, for an integer or an element of GF(p).
SConst(C, k) == Apply(C, "SClass", << CurvePolynomial(C.E, << k >>, << >>) >>)

SAdd(C, a, b) ==
    Apply(C, "SClass",
          << CPAdd(C.E, AsCurvePolynomial(C.E, a), AsCurvePolynomial(C.E, b)) >>)

SNeg(C, a) == Apply(C, "SClass", << CPNeg(C.E, AsCurvePolynomial(C.E, a)) >>)

SMul(C, a, b) ==
    Apply(C, "SClass",
          << CPMul(C.E, AsCurvePolynomial(C.E, a), AsCurvePolynomial(C.E, b)) >>)

SEq(C, a, b) == AsCurvePolynomial(C.E, a) = AsCurvePolynomial(C.E, b)

SBool(a) == IsCurvePolynomial(a) /\ CPBool(a)

\* FractionField.__init__( numerator, denominator ) with elements of S.
TInit(numerator, denominator) ==
    IF ~SBool(denominator) THEN Exc("ZeroDivisionError")
    ELSE [numerator |-> numerator, denominator |-> denominator]

\* The cast of an integer or an element of GF(p) to the fraction field.
TConst(C, k) ==
    TInit(Apply(C, "SConst", << k >>), Apply(C, "SConst", << 1 >>))

TBool(a) == SBool(a.numerator)

TEq(C, a, b) ==
    SEq(C, Apply(C, "SMul", << a.numerator, b.denominator >>),
           Apply(C, "SMul", << b.numerator, a.denominator >>))

TAdd(C, a, b) ==
    Lift2(a, b, LAMBDA u, v :
        TInit(Apply(C, "SAdd",
                    << Apply(C, "SMul", << u.numerator, v.denominator >>),
                       Apply(C, "SMul", << u.denominator, v.numerator >>) >>),
              Apply(C, "SMul", << u.denominator, v.denominator >>)))

TNeg(C, a) ==
    Lift1(a, LAMBDA u : TInit(Apply(C, "SNeg", << u.numerator >>), u.denominator))

TMul(C, a, b) ==
    Lift2(a, b, LAMBDA u, v :
        TInit(Apply(C, "SMul", << u.numerator, v.numerator >>),
              Apply(C, "SMul", << u.denominator, v.denominator >>)))

Tmultiplicative_inverse(a) ==
    Lift1(a, LAMBDA u :
        IF ~TBool(u) THEN Exc("ZeroDivisionError")
        ELSE TInit(u.denominator, u.numerator))

\* Field.__sub__, Field.__truediv__ and Field.__pow__, the loop of __pow__
\* as in PolyPowLoop.
TSub(C, a, b) == TAdd(C, a, TNeg(C, b))

TDiv(C, a, b) ==
    Lift2(a, b, LAMBDA u, v :
        IF ~TBool(v) THEN Exc("ZeroDivisionError")
        ELSE TMul(C, u, Tmultiplicative_inverse(v)))

RECURSIVE TPowLoop(_, _, _, _)
TPowLoop(C, result, a, count) ==
    IF count <= 0 THEN result
    ELSE CHOOSE power \in { TPowLoop(C, product, a, count - 1) :
                                product \in { TMul(C, result, a) } } : TRUE

TPow(C, a, n) == TPowLoop(C, a, a, n - 1)

\* EllipticCurve( x, y ) over T: the assertion of the curve equation.
TPoint(C, x, y) ==
    Lift2(x, y, LAMBDA u, v :
        LET lhs == TPow(C, v, 2)
            rhs == TAdd(C, TAdd(C, TPow(C, u, 3), TMul(C, u, TConst(C, C.E.A))),
                        TConst(C, C.E.B))
        IN  IF ~C.dbg THEN [infinite |-> FALSE, x |-> u, y |-> v]
            ELSE IF IsExc(lhs) THEN lhs
            ELSE IF IsExc(rhs) THEN rhs
            ELSE IF TEq(C, lhs, rhs) THEN [infinite |-> FALSE, x |-> u, y |-> v]
            ELSE Exc("AssertionError"))

TPointNeg(C, P) ==
    Lift1(P, LAMBDA U : IF U.infinite THEN U ELSE TPoint(C, U.x, TNeg(C, U.y)))

\* EllipticCurve.__eq__
TPointEq(C, P, Q) ==
    IF Q.infinite THEN FALSE ELSE TEq(C, P.x, Q.x) /\ TEq(C, P.y, Q.y)

Tgeneric_add(C, P, Q) ==
    LET gamma == TDiv(C, TSub(C, Q.y, P.y), TSub(C, Q.x, P.x))
        u == TAdd(C, TSub(C, TNeg(C, P.x), Q.x), TPow(C, gamma, 2))
        v == TSub(C, TNeg(C, P.y), TMul(C, gamma, TSub(C, u, P.x)))
    IN  TPoint(C, u, v)

Tdouble(C, P) ==
    LET delta == TDiv(C, TAdd(C, TMul(C, TPow(C, P.x, 2), TConst(C, 3)),
                              TConst(C, C.E.A)),
                      TMul(C, P.y, TConst(C, 2)))
        u == TAdd(C, TSub(C, TNeg(C, P.x), P.x), TPow(C, delta, 2))
        v == TSub(C, TNeg(C, P.y), TMul(C, delta, TSub(C, u, P.x)))
    IN  TPoint(C, u, v)

\* EllipticCurve.__add__ and PointAtInfinity.__add__
TPointAdd(C, P, Q) ==
    Lift2(P, Q, LAMBDA U, V :
        IF U.infinite THEN V
        ELSE IF V.infinite THEN U
        ELSE LET W == TPointNeg(C, V)
             IN  IF IsExc(W) THEN W
                 ELSE IF TPointEq(C, U, W) THEN Infinity
                 ELSE IF TEq(C, U.x, V.x) THEN Tdouble(C, U)
                 ELSE Tgeneric_add(C, U, V))

\* EllipticCurve.__sub__ and PointAtInfinity.__sub__
TPointSub(C, P, Q) == TPointAdd(C, P, TPointNeg(C, Q))

RECURSIVE TMulLoop(_, _, _, _, _)
TMulLoop(C, P, point, i, n) ==
    IF i >= n THEN point ELSE TMulLoop(C, P, TPointAdd(C, point, P), i + 1, n)

\* n * P for an integer n
TPointMul(C, P, n) ==
    Lift1(P, LAMBDA U :
        IF U.infinite THEN U
        ELSE IF n = 0 THEN Infinity
        ELSE TMulLoop(C, U, U, 1, n))

\* LTorsionGroup.elements(): the one point (x, y).
TorsionPoint(C) ==
    LET one == Apply(C, "SConst", << 1 >>)
        x == Apply(C, "SClass", << CurvePolynomial(C.E, << 0, 1 >>, << >>) >>)
        y == Apply(C, "SClass", << CurvePolynomial(C.E, << >>, << 1 >>) >>)
    IN  TPoint(C, TInit(x, one), TInit(y, one))

\* frobenius( point, q )
frobenius(C, P, q) ==
    Lift1(P, LAMBDA U : TPoint(C, TPow(C, U.x, q), TPow(C, U.y, q)))

Apply(C, op, args) ==
    CASE op = "SClass" -> SClass(C, args[1])
      [] op = "SConst" -> SConst(C, args[1])
      [] op = "SAdd" -> SAdd(C, args[1], args[2])
      [] op = "SNeg" -> SNeg(C, args[1])
      [] op = "SMul" -> SMul(C, args[1], args[2])
      [] op = "TEq" -> TEq(C, args[1], args[2])
      [] op = "TPointAdd" -> TPointAdd(C, args[1], args[2])
      [] op = "TPointSub" -> TPointSub(C, args[1], args[2])
      [] op = "TorsionPoint" -> TorsionPoint(C)
      [] op = "frobenius" -> frobenius(C, args[1], args[2])

----------------------------------------------------------------------------
(* support/primes.py, and the ranges and primes of the two variants *)

\* ceil( sqrt( n ) ) and ceil( n / d ) for positive integers.
CeilSqrt(n) == CHOOSE k \in 0..n : k * k >= n /\ (k = 0 \/ (k - 1) * (k - 1) < n)

CeilDiv(n, d) == (n + d - 1) \div d

\* sorted( list( S ) ) for a set of integers.
RECURSIVE Sorted(_)
Sorted(S) ==
    IF S = { } THEN << >>
    ELSE LET least == CHOOSE n \in S : \A k \in S : n <= k
         IN  << least >> \o Sorted(S \ { least })

\* The loop of the sieve of Eratosthenes in primes_range.
RECURSIVE SieveLoop(_, _, _, _)
SieveLoop(primes, i, sieve_bound, upper_bound) ==
    IF i >= sieve_bound THEN primes
    ELSE SieveLoop(IF i \in primes
                   THEN primes \ { i * j : j \in 2..(CeilDiv(upper_bound, i) - 1) }
                   ELSE primes,
                   i + 1, sieve_bound, upper_bound)

\* primes_range( lower_bound, upper_bound )
primes_range(lower_bound, upper_bound) ==
    Sorted(SieveLoop(2..(upper_bound - 1), 2, CeilSqrt(upper_bound), upper_bound)
               \ (2..(lower_bound - 1)))

\* The loop of inverse_primorial over the primes from position i on.
RECURSIVE PrimorialLoop(_, _, _, _, _)
PrimorialLoop(primes, i, product, n, shunned) ==
    IF i > Len(primes) THEN 2
    ELSE IF primes[i] = shunned THEN PrimorialLoop(primes, i + 1, product, n, shunned)
    ELSE IF product * primes[i] >= n THEN primes[i]
    ELSE PrimorialLoop(primes, i + 1, product * primes[i], n, shunned)

\* inverse_primorial( n, shunned )
inverse_primorial(n, shunned) ==
    PrimorialLoop(primes_range(2, n + 1), 1, 1, n, shunned)

\* The first loop of greedy_prime_factors: the (one-based) position at which
\* it stops and the product reached.
RECURSIVE GreedyScan(_, _, _, _, _)
GreedyScan(primes, i, product, n, shunned) ==
    LET next == IF primes[i] = shunned THEN product ELSE product * primes[i]
    IN  IF (primes[i] # shunned /\ next >= n) \/ i = Len(primes)
        THEN << i, next >>
        ELSE GreedyScan(primes, i + 1, next, n, shunned)

\* The second loop of greedy_prime_factors, from the last prime downwards:
\* a prime whose removal leaves the product at n or above becomes 0.
RECURSIVE GreedyCancel(_, _, _, _)
GreedyCancel(primes, i, product, n) ==
    IF i < 1 THEN primes
    ELSE IF product \div primes[i] >= n
    THEN GreedyCancel([primes EXCEPT ![i] = 0], i - 1, product \div primes[i], n)
    ELSE GreedyCancel(primes, i - 1, product, n)

\* greedy_prime_factors( n, shunned )
greedy_prime_factors(n, shunned) ==
    LET primes == primes_range(2, n + 1)
        scan == GreedyScan(primes, 1, 1, n, shunned)
        kept == SelectSeq(SubSeq(primes, 1, scan[1]), LAMBDA q : q # shunned)
    IN  SelectSeq(GreedyCancel(kept, Len(kept), scan[2], n), LAMBDA q : q # 0)

\* possible_frobenius_trace_range( field ) and hasse_frobenius_trace_range(
\* field ): a range is the record of its first element and its length.
possible_frobenius_trace_range(q) == [first |-> -q, len |-> 2 * q + 1]

hasse_frobenius_trace_range(q) ==
    [first |-> -(2 * CeilSqrt(q)), len |-> 4 * CeilSqrt(q) + 1]

\* A representative_in_range that returns the remainder as it is.
representative_in_rangeUnshifted(quotient_class, valid_range) ==
    IF valid_range.len > quotient_class.modulus THEN Raise("ValueError")
    ELSE Ok(quotient_class.remainder)

\* representative_in_range( quotient_class, valid_range ): the range is
\* shifted to begin in 0..modulus-1, where the representative is either the
\* remainder or the remainder plus the modulus.  valid_range[0] of an empty
\* range raises IndexError.
representative_in_range(quotient_class, valid_range) ==
    LET modulus == quotient_class.modulus
        q == PyFloorDiv(valid_range.first, modulus)
        r == PyMod(valid_range.first, modulus)
        shifted_range == r..(r + valid_range.len - 1)
    IN  IF valid_range.len > modulus THEN Raise("ValueError")
        ELSE IF valid_range.len = 0 THEN Raise("IndexError")
        ELSE IF quotient_class.remainder \in shifted_range
        THEN Ok(q * modulus + quotient_class.remainder)
        ELSE IF quotient_class.remainder + modulus \in shifted_range
        THEN Ok((q + 1) * modulus + quotient_class.remainder)
        ELSE Raise("ValueError")

\* A loop that ends before its first pass.
PolyEuclidLoopSkipped(F, larger_remainder, lesser_remainder) == larger_remainder

\* The remainders of extended_euclidean_algorithm on two polynomials that
\* are not zero; the last one that is not zero is the gcd.
RECURSIVE PolyEuclidLoop(_, _, _)
PolyEuclidLoop(F, larger_remainder, lesser_remainder) ==
    IF lesser_remainder = << >> THEN larger_remainder
    ELSE PolyEuclidLoop(F, lesser_remainder,
                        PolyDivMod(F, larger_remainder, lesser_remainder).val[2])

\* frobenius_trace_mod_2( curve ): the congruence class modulo 2.
frobenius_trace_mod_2(E) ==
    LET F == E.field
        x == Polynomial(F, << 0, 1 >>)
        defining_polynomial ==
            PolyAdd(F, PolyAdd(F, PolyPow(F, x, 3),
                               PolyMul(F, Polynomial(F, << E.A >>), x)),
                    Polynomial(F, << E.B >>))
        rational_characteristic == PolySub(F, PolyPow(F, x, F), x)
    IN  IF rational_characteristic = << >> THEN Raise("ZeroDivisionError")
        ELSE IF degree(PolyEuclidLoop(F, rational_characteristic,
                                      defining_polynomial)) = 0
        THEN Ok(Congruence(1, 2))
        ELSE Ok(Congruence(0, 2))

----------------------------------------------------------------------------
(* naive_schoof.py and reduced_computation_schoof.py: frobenius_trace of   *)
(* both variants on one curve, the naive variant first.  A step is one     *)
(* operation on points of the torsion group; pc is the position in         *)
(* frobenius_trace and frobenius_trace_mod_l, locals are the variables of  *)
(* frobenius_trace_mod_l and of EllipticCurve.__mul__.                     *)

\* The curves of the runs: y^2 = x^3 + x + 1 over GF(5), y^2 = x^3 + 2 and
\* y^2 = x^3 + x + 1 over GF(7), and y^2 = x^3 + 7 x + 16 over GF(23).
SchoofCurves ==
    { [field |-> 5, A |-> 1, B |-> 1], [field |-> 7, A |-> 0, B |-> 2],
      [field |-> 7, A |-> 1, B |-> 1], [field |-> 23, A |-> 7, B |-> 16] }

\* The field T of the current torsion group.
TorsionField == [E |-> schoofCurve, psi |-> torsion_group.psi, dbg |-> debug]

\* search_range of the variant.
search_range(v, q) ==
    IF v = "naive" THEN possible_frobenius_trace_range(q)
    ELSE hasse_frobenius_trace_range(q)

\* frobenius_trace ends for the variant, with a return value or with an
\* exception; the reduced variant is called next.
Finish(result) ==
    /\ traces' = [traces EXCEPT ![variant] = result]
    /\ variant' = "reduced"
    /\ pc' = IF variant = "naive" THEN "start" ELSE "done"
    /\ torsion_primes' = << >>
    /\ trace_congruences' = << >>
    /\ division_polynomials' = << >>
    /\ torsion_group' = NoTorsionGroup
    /\ locals' = NoLocals
    /\ UNCHANGED << debug, schoofCurve >>

\* frobenius_trace_mod_l returns the congruence class of remainder modulo
\* the torsion; frobenius_trace appends it and goes on with the next prime.
ReturnCongruence(remainder) ==
    /\ trace_congruences' =
           Append(trace_congruences, Congruence(remainder, torsion_group.torsion))
    /\ pc' = "next_prime"
    /\ locals' = NoLocals
    /\ UNCHANGED << debug, schoofCurve, variant, torsion_primes,
                    division_polynomials, torsion_group, traces >>

\* A new value of the locals, and on to the position next.
Goto(next, new_locals) ==
    /\ locals' = new_locals
    /\ pc' = next
    /\ UNCHANGED << debug, schoofCurve, variant, torsion_primes, trace_congruences,
                    division_polynomials, torsion_group, traces >>

\* EllipticCurve.__mul__( n ) begins: n == 0 returns the point at infinity,
\* otherwise point = self and the loop follows.
BeginMul(self, n, return) ==
    Goto("mul_loop", [locals EXCEPT !.self = self, !.n = n, !.i = 1, !.return = return,
                                    !.point = IF n = 0 THEN Infinity ELSE self])

InitSchoof ==
    /\ debug \in BOOLEAN
    /\ schoofCurve \in SchoofCurves
    /\ variant = "naive"
    /\ pc = "start"
    /\ torsion_primes = << >>
    /\ trace_congruences = << >>
    /\ division_polynomials = << >>
    /\ torsion_group = NoTorsionGroup
    /\ locals = NoLocals
    /\ traces = [naive |-> NotCalled, reduced |-> NotCalled]
    /\ OthersIdle("schoof")

\* frobenius_trace( curve ) up to the loop over the primes: the search
\* range, the primes and, where 2 is among them, the trace modulo 2.
Start ==
    /\ pc = "start"
    /\ LET q == schoofCurve.field
           n == search_range(variant, q).len
           primes == IF variant = "naive"
                     THEN SelectSeq(primes_range(3, inverse_primorial(n, q) + 1),
                                    LAMBDA prime : prime # q)
                     ELSE greedy_prime_factors(n, q)
           with2 == variant = "naive" \/ \E k \in DOMAIN primes : primes[k] = 2
           mod2 == frobenius_trace_mod_2(schoofCurve)
       IN  IF with2 /\ mod2.exc # "none" THEN Finish(mod2)
           ELSE /\ torsion_primes' = SelectSeq(primes, LAMBDA prime : prime # 2)
                /\ trace_congruences' = IF with2 THEN << mod2.val >> ELSE << >>
                /\ pc' = "next_prime"
                /\ UNCHANGED << debug, schoofCurve, variant, division_polynomials,
                                torsion_group, locals, traces >>
    /\ OthersUnchanged("schoof")

\* The loop over the primes: torsion_group( prime ) and the beginning of
\* frobenius_trace_mod_l with torsion_group.elements(), or the end of the
\* loop.
NextPrime ==
    /\ pc = "next_prime"
    /\ IF torsion_primes = << >>
       THEN /\ pc' = "solve"
            /\ UNCHANGED << debug, schoofCurve, variant, torsion_primes,
                            trace_congruences, division_polynomials, torsion_group,
                            locals, traces >>
       ELSE LET l == Head(torsion_primes)
            IN  IF l < 3 \/ l % 2 = 0 \/ l % schoofCurve.field = 0
                THEN Finish(Raise("ValueError"))
                ELSE \E cache \in { generate_up_to(schoofCurve, division_polynomials,
                                                   Len(division_polynomials), l) } :
                     \E group \in { [E |-> schoofCurve, psi |-> cache[l + 1].polynomial,
                                     dbg |-> debug] } :
                     \E point \in { Apply(group, "TorsionPoint", << >>) } :
                        IF IsExc(point) THEN Finish(Raise(point.exc))
                        ELSE /\ division_polynomials' = cache
                             /\ torsion_group' = [torsion |-> l, psi |-> group.psi,
                                                  point |-> point]
                             /\ torsion_primes' = Tail(torsion_primes)
                             /\ locals' = NoLocals
                             /\ pc' = "frobenius"
                             /\ UNCHANGED << debug, schoofCurve, variant,
                                             trace_congruences, traces >>
    /\ OthersUnchanged("schoof")

\* frobenius( point, field_size ); the naive variant calls it anew for every
\* trace candidate.
Frobenius ==
    /\ pc = "frobenius"
    /\ \E frobenius_point \in
            { Apply(TorsionField, "frobenius",
                    << torsion_group.point, schoofCurve.field >>) } :
          IF IsExc(frobenius_point) THEN Finish(Raise(frobenius_point.exc))
          ELSE Goto("frobenius2",
                    [locals EXCEPT !.frobenius_point = frobenius_point])
    /\ OthersUnchanged("schoof")

\* frobenius( frobenius_point, field_size )
Frobenius2 ==
    /\ pc = "frobenius2"
    /\ \E frobenius2_point \in
            { Apply(TorsionField, "frobenius",
                    << locals.frobenius_point, schoofCurve.field >>) } :
          IF IsExc(frobenius2_point) THEN Finish(Raise(frobenius2_point.exc))
          ELSE Goto(IF variant = "naive" THEN "scale" ELSE "determinant",
                    [locals EXCEPT !.frobenius2_point = frobenius2_point])
    /\ OthersUnchanged("schoof")

\* frobenius_equation: trace.remainder() * frobenius( point, size ), where
\* the second call of frobenius returns what the first one returned.
Scale ==
    /\ pc = "scale"
    /\ BeginMul(locals.frobenius_point, locals.trace_candidate, "subtract")
    /\ OthersUnchanged("schoof")

\* One pass of the loop of EllipticCurve.__mul__: point += self.
MulStep ==
    /\ pc = "mul_loop"
    /\ IF locals.i >= locals.n THEN Goto(locals.return, locals)
       ELSE \E point \in { Apply(TorsionField, "TPointAdd",
                                 << locals.point, locals.self >>) } :
               IF IsExc(point) THEN Finish(Raise(point.exc))
               ELSE Goto("mul_loop", [locals EXCEPT !.point = point, !.i = @ + 1])
    /\ OthersUnchanged("schoof")

\* frobenius_equation: the difference of the first two terms.
Subtract ==
    /\ pc = "subtract"
    /\ \E difference \in
            { Apply(TorsionField, "TPointSub",
                    << locals.frobenius2_point, locals.point >>) } :
          IF IsExc(difference) THEN Finish(Raise(difference.exc))
          ELSE Goto("determinant", [locals EXCEPT !.point_sum = difference])
    /\ OthersUnchanged("schoof")

\* ( field_size % torsion ) * point
Determinant ==
    /\ pc = "determinant"
    /\ BeginMul(torsion_group.point, schoofCurve.field % torsion_group.torsion,
                IF variant = "naive" THEN "add" ELSE "point_sum")
    /\ OthersUnchanged("schoof")

\* frobenius_equation: the last term is added and the result is tested; the
\* loop of the naive frobenius_trace_mod_l goes on to the next candidate.
AddDeterminant ==
    /\ pc = "add"
    /\ \E result \in { Apply(TorsionField, "TPointAdd",
                              << locals.point_sum, locals.point >>) } :
          IF IsExc(result) THEN Finish(Raise(result.exc))
          ELSE IF result.infinite THEN ReturnCongruence(locals.trace_candidate)
          ELSE IF locals.trace_candidate + 1 < torsion_group.torsion
          THEN Goto("frobenius",
                    [NoLocals EXCEPT !.trace_candidate = locals.trace_candidate + 1])
          ELSE Finish(Raise("ArithmeticError"))
    /\ OthersUnchanged("schoof")

\* The reduced frobenius_trace_mod_l: point_sum and the test for infinity.
PointSum ==
    /\ pc = "point_sum"
    /\ \E point_sum \in
            { Apply(TorsionField, "TPointAdd",
                    << locals.frobenius2_point, locals.point >>) } :
          IF IsExc(point_sum) THEN Finish(Raise(point_sum.exc))
          ELSE IF point_sum.infinite THEN ReturnCongruence(0)
          ELSE Goto("trace_candidate",
                    [locals EXCEPT !.point_sum = point_sum,
                                   !.trace_point = locals.frobenius_point,
                                   !.trace_candidate = 1])
    /\ OthersUnchanged("schoof")

\* One pass of the loop over the trace candidates of the reduced
\* frobenius_trace_mod_l; x() of the point at infinity does not exist.
TraceCandidate ==
    /\ pc = "trace_candidate"
    /\ IF locals.trace_candidate >= (torsion_group.torsion + 1) \div 2
       THEN Finish(Raise("ArithmeticError"))
       ELSE IF locals.trace_point.infinite THEN Finish(Raise("AttributeError"))
       ELSE IF Apply(TorsionField, "TEq",
                     << locals.point_sum.x, locals.trace_point.x >>)
       THEN IF Apply(TorsionField, "TEq",
                     << locals.point_sum.y, locals.trace_point.y >>)
            THEN ReturnCongruence(locals.trace_candidate)
            ELSE ReturnCongruence(-locals.trace_candidate)
       ELSE \E trace_point \in
                { Apply(TorsionField, "TPointAdd",
                        << locals.trace_point, locals.frobenius_point >>) } :
               IF IsExc(trace_point) THEN Finish(Raise(trace_point.exc))
               ELSE Goto("trace_candidate",
                         [locals EXCEPT !.trace_point = trace_point,
                                        !.trace_candidate = @ + 1])
    /\ OthersUnchanged("schoof")

\* solve_congruence_equations and representative_in_range: the return
\* value of frobenius_trace.
Solve ==
    /\ pc = "solve"
    /\ LET trace_congruence == solve_congruence_equations(trace_congruences, debug)
       IN  IF trace_congruence.exc # "none" THEN Finish(trace_congruence)
           ELSE Finish(representative_in_range(
                           trace_congruence.val,
                           search_range(variant, schoofCurve.field)))
    /\ OthersUnchanged("schoof")

NextSchoof ==
    \/ Start \/ NextPrime \/ Frobenius \/ Frobenius2 \/ Scale \/ MulStep
    \/ Subtract \/ Determinant \/ AddDeterminant \/ PointSum \/ TraceCandidate
    \/ Solve

SpecSchoof == InitSchoof /\ [][NextSchoof]_vars

\* The number of points of the curve, the point at infinity included,
\* counted over all pairs (x, y) of field elements.
NumberOfPoints(E) ==
    1 + Cardinality({ xy \in (0..(E.field - 1)) \X (0..(E.field - 1)) :
                        Satisfies(E, [infinite |-> FALSE, x |-> xy[1], y |-> xy[2]]) })

\* The number of points that the return value t of a variant stands for.
PointCount(trace) == schoofCurve.field + 1 - trace.val

\* C1: for a curve that is not singular over a prime field GF(p), p > 3,
\* both variants of frobenius_trace return the same integer t, and
\* p + 1 - t is the number of points of the curve, the point at infinity
\* included: 9 for y^2 = x^3 + x + 1 over GF(5), 9 for y^2 = x^3 + 2 over
\* GF(7) and 22 for y^2 = x^3 + 7 x + 16 over GF(23).
C1_TraceCountsPoints ==
    /\ \A v \in { "naive", "reduced" } :
          traces[v] # NotCalled =>
              /\ traces[v].exc = "none"
              /\ traces[v].val \in Int
              /\ PointCount(traces[v]) = NumberOfPoints(schoofCurve)
    /\ pc = "done" =>
          /\ traces.reduced = traces.naive
          /\ schoofCurve = [field |-> 5, A |-> 1, B |-> 1]
                 => PointCount(traces.naive) = 9
          /\ schoofCurve = [field |-> 7, A |-> 0, B |-> 2]
                 => PointCount(traces.naive) = 9
          /\ schoofCurve = [field |-> 23, A |-> 7, B |-> 16]
                 => PointCount(traces.naive) = 22

\* Both variants have returned for y^2 = x^3 + 7 x + 16 over GF(23), which
\* has trace 2.
C1_BothReturned ==
    /\ pc = "done"
    /\ schoofCurve = [field |-> 23, A |-> 7, B |-> 16]
    /\ traces.naive = Ok(2)
    /\ traces.reduced = Ok(2)

----------------------------------------------------------------------------
(* Single calls of the library functions.  A specification of this part   *)
(* draws the arguments of one call and applies the function to them.       *)

\* The call of function with arguments, not made yet.
Invocation(function, arguments) == [function |-> function, arguments |-> arguments]

\* The call drawn in Init is made, and outcome keeps what it produced.
Return(function, result) ==
    /\ invocation.function = function
    /\ outcome = NotCalled
    /\ outcome' = result
    /\ UNCHANGED << debug, invocation >>
    /\ OthersUnchanged("call")

\* The call of function has been made.
Returned(function) == invocation.function = function /\ outcome # NotCalled

----------------------------------------------------------------------------
(* support/rings.py: extended_euclidean_algorithm on integers *)

MaxOperand == 12

InitEuclid ==
    /\ debug = TRUE
    /\ invocation \in { Invocation("extended_euclidean_algorithm", << u, v >>) :
                            u \in -MaxOperand..MaxOperand, v \in -MaxOperand..MaxOperand }
    /\ outcome = NotCalled
    /\ OthersIdle("call")

\* One call extended_euclidean_algorithm( u, v ).
ExtendedEuclideanAlgorithm ==
    Return("extended_euclidean_algorithm",
           extended_euclidean_algorithm(invocation.arguments[1], invocation.arguments[2]))

NextEuclid == ExtendedEuclideanAlgorithm

SpecEuclid == InitEuclid /\ [][NextEuclid]_vars

\* d divides u and v, and every common divisor of u and v divides d.
IsGreatestCommonDivisor(d, u, v) ==
    /\ d # 0
    /\ u % (IF d < 0 THEN -d ELSE d) = 0
    /\ v % (IF d < 0 THEN -d ELSE d) = 0
    /\ \A c \in 1..MaxOperand :
           (u % c = 0 /\ v % c = 0) => (IF d < 0 THEN -d ELSE d) % c = 0

\* C11: for integers u and v that are not zero, extended_euclidean_algorithm
\* returns (m, n, d) with u*m + v*n = d and d a greatest common divisor of u
\* and v (the evaluation of the loop ends for every pair); if u or v is
\* zero the call raises ZeroDivisionError.
C11_ExtendedEuclid ==
    Returned("extended_euclidean_algorithm") =>
        LET u == invocation.arguments[1]
            v == invocation.arguments[2]
        IN  IF u = 0 \/ v = 0
            THEN outcome.exc = "ZeroDivisionError"
            ELSE /\ outcome.exc = "none"
                 /\ u * outcome.val[1] + v * outcome.val[2] = outcome.val[3]
                 /\ IsGreatestCommonDivisor(outcome.val[3], u, v)

\* A call with a negative argument whose loop ran more than once.
C11_NegativeOperand ==
    /\ Returned("extended_euclidean_algorithm")
    /\ invocation.arguments = << 12, -9 >>
    /\ outcome = Ok(<< -1, -1, -3 >>)

----------------------------------------------------------------------------
(* support/quotients.py: representative_in_range *)

MaxRangeModulus == 4

MaxRangeStart == 5

\* The ranges range(first, first + len) of at most modulus + 1 elements;
\* range(first, first) is the empty range.
InitRange ==
    /\ debug = TRUE
    /\ invocation \in
           { Invocation("representative_in_range",
                        << Congruence(r, modulus), [first |-> first, len |-> len] >>) :
                 << modulus, r, first, len >> \in
                     { t \in (1..MaxRangeModulus) \X (0..MaxRangeModulus)
                               \X (-MaxRangeStart..MaxRangeStart)
                               \X (0..(MaxRangeModulus + 1)) :
                           t[2] < t[1] /\ t[4] <= t[1] + 1 } }
    /\ outcome = NotCalled
    /\ OthersIdle("call")

\* One call representative_in_range( quotient_class, valid_range ).
RepresentativeInRange ==
    Return("representative_in_range",
           representative_in_range(invocation.arguments[1], invocation.arguments[2]))

NextRange == RepresentativeInRange

SpecRange == InitRange /\ [][NextRange]_vars

\* The members of valid_range that are congruent to the remainder.
Representatives(quotient_class, valid_range) ==
    { x \in valid_range.first..(valid_range.first + valid_range.len - 1) :
          PyMod(x, quotient_class.modulus) = quotient_class.remainder }

\* The statement of C12 for the call made.
RangeContract(quotient_class, valid_range) ==
    LET members == Representatives(quotient_class, valid_range)
        wide == valid_range.len > quotient_class.modulus
    IN  /\ (~wide /\ members # { }) =>
               (outcome.exc = "none" /\ outcome.val \in members)
        /\ outcome.exc = "ValueError" <=> (wide \/ members = { })

\* C12: representative_in_range returns the member of the range that is
\* congruent to the remainder whenever the range has at most modulus many
\* elements and contains such a member, and it raises ValueError exactly
\* when the range has more elements than the modulus or contains no such
\* member.
C12_RepresentativeInRange ==
    Returned("representative_in_range") =>
        RangeContract(invocation.arguments[1], invocation.arguments[2])

\* The same statement for the ranges that are not empty.
C12_RepresentativeInNonEmptyRange ==
    (Returned("representative_in_range") /\ invocation.arguments[2].len > 0) =>
        RangeContract(invocation.arguments[1], invocation.arguments[2])

\* The representative of 0 mod 4 in range(-3, 1) is 0, found by the second
\* test.
C12_SecondTest ==
    /\ Returned("representative_in_range")
    /\ invocation.arguments = << Congruence(0, 4), [first |-> -3, len |-> 4] >>
    /\ outcome = Ok(0)

----------------------------------------------------------------------------
(* naive_schoof.py and reduced_computation_schoof.py: frobenius_trace_mod_2 *)

\* The fields GF(p) of the curves handed to frobenius_trace_mod_2.
TraceFields == { 3, 5, 7, 11 }

\* The curves that are not singular.
TraceCurves ==
    { E \in [field : TraceFields, A : 0..10, B : 0..10] :
          E.A < E.field /\ E.B < E.field /\ ~is_singular(E) }

InitTrace2 ==
    /\ debug = TRUE
    /\ invocation \in
           { Invocation(function, << E >>) :
                 function \in { "naive_schoof.frobenius_trace_mod_2",
                                "reduced_computation_schoof.frobenius_trace_mod_2" },
                 E \in TraceCurves }
    /\ outcome = NotCalled
    /\ OthersIdle("call")

\* One call frobenius_trace_mod_2( curve ) of naive_schoof.
NaiveTraceMod2 ==
    Return("naive_schoof.frobenius_trace_mod_2",
           frobenius_trace_mod_2(invocation.arguments[1]))

\* One call frobenius_trace_mod_2( curve ) of reduced_computation_schoof:
\* the same statements without the variable d.
ReducedTraceMod2 ==
    Return("reduced_computation_schoof.frobenius_trace_mod_2",
           frobenius_trace_mod_2(invocation.arguments[1]))

NextTrace2 == NaiveTraceMod2 \/ ReducedTraceMod2

SpecTrace2 == InitTrace2 /\ [][NextTrace2]_vars

\* The roots of x^3 + A x + B in GF(p).
Roots(E) ==
    { x \in 0..(E.field - 1) : (x * x * x + E.A * x + E.B) % E.field = 0 }

\* C13: in both variants frobenius_trace_mod_2 returns 1 if and only if
\* x^3 + A x + B has no root in GF(p), and 0 otherwise, and so the returned
\* value is (p + 1 - #E) mod 2.
C13_TraceModuloTwo ==
    \A function \in { "naive_schoof.frobenius_trace_mod_2",
                      "reduced_computation_schoof.frobenius_trace_mod_2" } :
        Returned(function) =>
            LET E == invocation.arguments[1]
            IN  /\ outcome.exc = "none"
                /\ outcome.val = Congruence(IF Roots(E) = { } THEN 1 ELSE 0, 2)
                /\ outcome.val.remainder = PyMod(E.field + 1 - NumberOfPoints(E), 2)

\* The reduced variant returned 1 for y^2 = x^3 + x + 1 over GF(5), a curve
\* of nine points.
C13_OddTrace ==
    /\ Returned("reduced_computation_schoof.frobenius_trace_mod_2")
    /\ invocation.arguments[1] = [field |-> 5, A |-> 1, B |-> 1]
    /\ Roots(invocation.arguments[1]) = { }
    /\ outcome = Ok(Congruence(1, 2))

----------------------------------------------------------------------------
(* elliptic_curves/naive.py: multiplication of points with integers *)

\* P + (P + (... + (P + infinity))) with n summands P.
RECURSIVE SumOfCopies(_, _, _, _)
SumOfCopies(E, dbg, P, n) ==
    IF n = 0 THEN Ok(Infinity)
    ELSE LET rest == SumOfCopies(E, dbg, P, n - 1)
         IN  IF rest.exc # "none" THEN rest ELSE PointAdd(E, dbg, P, rest.val)

\* The last operation was the product of a point of the curve and an
\* integer that is not negative, in either order.
MultipliedPoint ==
    /\ ecResult # NotCalled
    /\ ecResult.op \in { "mul", "rmul" }
    /\ LET P == IF ecResult.op = "mul" THEN ecResult.args[1] ELSE ecResult.args[2]
           n == IF ecResult.op = "mul" THEN ecResult.args[2] ELSE ecResult.args[1]
       IN  n >= 0 /\ Satisfies(ecCurve, P)

\* C14: for a point P of the curve, finite or infinite, and an integer n
\* that is not negative, P * n is the sum of n copies of P, P * 0 is the
\* point at infinity, and n * P equals P * n.
C14_ScalarMultiple ==
    MultipliedPoint =>
        LET P == IF ecResult.op = "mul" THEN ecResult.args[1] ELSE ecResult.args[2]
            n == IF ecResult.op = "mul" THEN ecResult.args[2] ELSE ecResult.args[1]
            sum == SumOfCopies(ecCurve, debug, P, n)
        IN  /\ ecResult.exc = "none"
            /\ sum.exc = "none"
            /\ PointEq(ecResult.val, sum.val)
            /\ n = 0 => ecResult.val = Infinity
            /\ PointRMul(ecCurve, debug, n, P) = PointMul(ecCurve, debug, P, n)

\* 5 * (0, 1) on y^2 = x^3 + x + 1 over GF(5), a point of order 9: the loop
\* has added four times.
C14_FiveCopies ==
    /\ MultipliedPoint
    /\ ecCurve = [field |-> 5, A |-> 1, B |-> 1]
    /\ ecResult.op = "rmul"
    /\ ecResult.args = << 5, [infinite |-> FALSE, x |-> 0, y |-> 1] >>
    /\ ecResult.exc = "none"
    /\ ~ecResult.val.infinite

----------------------------------------------------------------------------
(* elliptic_curves/naive.py: addition of points *)

\* The last operation was the sum of two points of the curve.
AddedPoints ==
    /\ ecResult # NotCalled
    /\ ecResult.op = "add"
    /\ Satisfies(ecCurve, ecResult.args[1])
    /\ Satisfies(ecCurve, ecResult.args[2])

\* C15: for points P and Q of the curve, each of them finite or the point
\* at infinity, P + Q == Q + P.
C15_AdditionCommutes ==
    AddedPoints =>
        LET swapped == PointAdd(ecCurve, debug, ecResult.args[2], ecResult.args[1])
        IN  /\ ecResult.exc = "none"
            /\ swapped.exc = "none"
            /\ PointEq(ecResult.val, swapped.val)

\* The point at infinity as the right summand of a finite point.
C15_InfinityOnTheRight ==
    /\ AddedPoints
    /\ ~ecResult.args[1].infinite
    /\ ecResult.args[2].infinite
    /\ ecResult.val = ecResult.args[1]

\* Two different finite points that are not negatives of each other.
C15_GenericSum ==
    /\ AddedPoints
    /\ ~ecResult.args[1].infinite
    /\ ~ecResult.args[2].infinite
    /\ ecResult.args[1].x # ecResult.args[2].x
    /\ ecResult.exc = "none"

----------------------------------------------------------------------------
(* elliptic_curves/l_torsion_group/naive.py: LTorsionGroup.  The list of   *)
(* division polynomials belongs to the class; a group computes its point,  *)
(* and with it the division polynomial, when elements() is called first.   *)

MaxTorsion == 7

TorsionCurves ==
    { [field |-> 3, A |-> 1, B |-> 1], [field |-> 5, A |-> 1, B |-> 1],
      [field |-> 7, A |-> 0, B |-> 2] }

\* A constructor that initializes the point at once.
LTorsionGroupInitEager(E, cache, torsion) ==
    IF torsion < 3 \/ torsion % 2 = 0 \/ QuotientClass(E.field, torsion) = 0
    THEN [exc |-> "ValueError", group |-> NoTorsionGroup, cache |-> cache]
    ELSE [exc |-> "none",
          group |-> [torsion |-> torsion, psi |-> ZeroCurvePolynomial, point |-> Unset],
          cache |-> generate_up_to(E, cache, Len(cache), torsion)]

\* LTorsionGroup.__init__( torsion ): the new object and the list of
\* division polynomials after the call.
LTorsionGroupInit(E, cache, torsion) ==
    IF torsion < 3 \/ torsion % 2 = 0 \/ QuotientClass(E.field, torsion) = 0
    THEN [exc |-> "ValueError", group |-> NoTorsionGroup, cache |-> cache]
    ELSE [exc |-> "none",
          group |-> [torsion |-> torsion, psi |-> ZeroCurvePolynomial, point |-> Unset],
          cache |-> cache]

InitTorsion ==
    /\ debug = TRUE
    /\ schoofCurve \in TorsionCurves
    /\ variant = "naive"
    /\ pc = "idle"
    /\ torsion_primes = << >>
    /\ trace_congruences = << >>
    /\ division_polynomials = << >>
    /\ torsion_group = NoTorsionGroup
    /\ locals = NoLocals
    /\ traces = [naive |-> NotCalled, reduced |-> NotCalled]
    /\ OthersIdle("schoof")

UnchangedByTorsion ==
    UNCHANGED << debug, crtVars, quotVars, polyVars, cpVars, fracVars, ecVars,
                 dpVars, parserVars, graphVars, threadVars, schoofCurve, variant,
                 pc, torsion_primes, trace_congruences, locals, traces >>

\* LTorsionGroup( torsion )
ConstructTorsionGroup ==
    \E torsion \in (-1)..MaxTorsion :
        LET made == LTorsionGroupInit(schoofCurve, division_polynomials, torsion)
        IN  /\ invocation' = Invocation("LTorsionGroup", << torsion >>)
            /\ outcome' = IF made.exc = "none" THEN Ok(made.group)
                          ELSE Raise(made.exc)
            /\ torsion_group' = IF made.exc = "none" THEN made.group
                                ELSE torsion_group
            /\ division_polynomials' = made.cache
            /\ UnchangedByTorsion

\* torsion_group.elements(): __init_point takes the division polynomial
\* from the list, which grows as far as needed, unless the point exists.
Elements ==
    /\ torsion_group.torsion # 0
    /\ invocation' = Invocation("elements", << >>)
    /\ IF torsion_group.point # Unset
       THEN /\ outcome' = Ok(torsion_group.point)
            /\ UNCHANGED << torsion_group, division_polynomials >>
       ELSE \E cache \in { generate_up_to(schoofCurve, division_polynomials,
                                          Len(division_polynomials),
                                          torsion_group.torsion) } :
            \E group \in { [E |-> schoofCurve,
                            psi |-> cache[torsion_group.torsion + 1].polynomial,
                            dbg |-> debug] } :
            \E point \in { Apply(group, "TorsionPoint", << >>) } :
                /\ division_polynomials' = cache
                /\ outcome' = IF IsExc(point) THEN Raise(point.exc) ELSE Ok(point)
                /\ torsion_group' =
                       IF IsExc(point) THEN torsion_group
                       ELSE [torsion_group EXCEPT !.psi = group.psi, !.point = point]
    /\ UnchangedByTorsion

NextTorsion == ConstructTorsionGroup \/ Elements

SpecTorsion == InitTorsion /\ [][NextTorsion]_vars

\* The constructor has raised ValueError for the torsions it does not
\* support and has returned for all others.
ConstructorContract ==
    Returned("LTorsionGroup") =>
        LET l == invocation.arguments[1]
        IN  IF l < 3 \/ l % 2 = 0 \/ l % schoofCurve.field = 0
            THEN outcome.exc = "ValueError"
            ELSE outcome = Ok([torsion |-> l, psi |-> ZeroCurvePolynomial,
                               point |-> Unset])

\* C16: the construction of an l-torsion group raises ValueError if and
\* only if l is less than 3, or even, or congruent to 0 modulo the
\* characteristic of the field; for every other l the construction succeeds
\* and the list of division polynomials is as it was before.
C16_TorsionGroupConstruction ==
    /\ []ConstructorContract
    /\ [][invocation'.function = "LTorsionGroup" =>
             division_polynomials' = division_polynomials]_vars

\* The 5-torsion group of y^2 = x^3 + 2 over GF(7) exists, and no division
\* polynomial has been computed.
C16_ConstructedLazily ==
    /\ Returned("LTorsionGroup")
    /\ schoofCurve.field = 7
    /\ invocation.arguments = << 5 >>
    /\ outcome.exc = "none"
    /\ division_polynomials = << >>

\* The torsion 5 is rejected over GF(5).
C16_CharacteristicRejected ==
    /\ Returned("LTorsionGroup")
    /\ schoofCurve.field = 5
    /\ invocation.arguments = << 5 >>
    /\ outcome.exc = "ValueError"

----------------------------------------------------------------------------
(* reduced_computation_schoof.py: greedy_prime_factors *)

MaxWidth == 32

MaxShunned == 13

InitGreedy ==
    /\ debug = TRUE
    /\ invocation \in { Invocation("greedy_prime_factors", << n, shunned >>) :
                            n \in 2..MaxWidth, shunned \in 0..MaxShunned }
    /\ outcome = NotCalled
    /\ OthersIdle("call")

\* One call greedy_prime_factors( n, shunned ).
GreedyPrimeFactors ==
    Return("greedy_prime_factors",
           Ok(greedy_prime_factors(invocation.arguments[1], invocation.arguments[2])))

NextGreedy == GreedyPrimeFactors

SpecGreedy == InitGreedy /\ [][NextGreedy]_vars

IsPrime(q) == q >= 2 /\ \A d \in 2..(q - 1) : q % d # 0

RECURSIVE ProductOf(_)
ProductOf(list) == IF list = << >> THEN 1 ELSE Head(list) * ProductOf(Tail(list))

\* The list holds distinct primes, none of them shunned, and their product
\* is at least n.
PrimeFactorsFor(list, n, shunned) ==
    /\ \A i \in 1..Len(list) : IsPrime(list[i]) /\ list[i] # shunned
    /\ \A i, j \in 1..Len(list) : i # j => list[i] # list[j]
    /\ ProductOf(list) >= n

\* C17: for n >= 2 and every shunned value greedy_prime_factors returns
\* distinct primes, none of them equal to shunned, whose product is at least
\* n; greedy_prime_factors( 14 ) is [3, 5].
C17_GreedyPrimeFactors ==
    Returned("greedy_prime_factors") =>
        /\ outcome.exc = "none"
        /\ PrimeFactorsFor(outcome.val, invocation.arguments[1], invocation.arguments[2])
        /\ invocation.arguments = << 14, 0 >> => outcome.val = << 3, 5 >>

\* The same statement for n >= 5, where the primes below n + 1 without the
\* shunned one have a product of n at least.
C17_GreedyPrimeFactorsFromFive ==
    (Returned("greedy_prime_factors") /\ invocation.arguments[1] >= 5) =>
        /\ outcome.exc = "none"
        /\ PrimeFactorsFor(outcome.val, invocation.arguments[1], invocation.arguments[2])
        /\ invocation.arguments = << 14, 0 >> => outcome.val = << 3, 5 >>

\* greedy_prime_factors( 14 ) has returned.
C17_Fourteen ==
    /\ Returned("greedy_prime_factors")
    /\ invocation.arguments = << 14, 0 >>
    /\ outcome = Ok(<< 3, 5 >>)

----------------------------------------------------------------------------
(* rings/__init__.py and fields/__init__.py: __pow__ of CommutativeRing,   *)
(* on polynomials over Z/FZ, and of Field, on fractions over GF(p).        *)

MaxExponent == 4

\* The for loop of Field.__pow__: result = result * self, count times.
RECURSIVE FractionPowLoop(_, _, _, _)
FractionPowLoop(p, result, a, count) ==
    IF count <= 0 \/ result.exc # "none" THEN result
    ELSE FractionPowLoop(p, FractionMul(p, result.val, a), a, count - 1)

\* Field.__pow__( n ) on a fraction.
FractionPow(p, a, n) == FractionPowLoop(p, Ok(a), a, n - 1)

\* FractionField.__eq__: u/v == s/t if and only if u t == s v.
FractionEq(p, a, b) ==
    QMul(p, a.numerator, b.denominator) = QMul(p, b.numerator, a.denominator)

InitPow ==
    /\ debug = TRUE
    /\ invocation \in
           { Invocation("CommutativeRing.__pow__", << F, a, n >>) :
                 << F, a, n >> \in
                     { t \in { 2, 3 } \X PolynomialsBelow(3, MaxCoefficients)
                               \X (0..MaxExponent) :
                           t[2] \in PolynomialsBelow(t[1], MaxCoefficients) } }
           \cup
           { Invocation("Field.__pow__", << q, a, n >>) :
                 << q, a, n >> \in
                     { t \in DomainSizes
                               \X [numerator : 0..4, denominator : 1..4]
                               \X (0..MaxExponent) :
                           t[2].numerator < t[1] /\ t[2].denominator < t[1] } }
    /\ outcome = NotCalled
    /\ OthersIdle("call")

\* a ** n for a polynomial a
RingPow ==
    Return("CommutativeRing.__pow__",
           Ok(PolyPow(invocation.arguments[1], invocation.arguments[2],
                      invocation.arguments[3])))

\* a ** n for a fraction a
FieldPow ==
    Return("Field.__pow__",
           FractionPow(invocation.arguments[1], invocation.arguments[2],
                       invocation.arguments[3]))

NextPow == RingPow \/ FieldPow

SpecPow == InitPow /\ [][NextPow]_vars

\* a * (a * (... * (a * one))) with n factors a, for a polynomial a.
RECURSIVE PolyProductOfCopies(_, _, _)
PolyProductOfCopies(F, a, n) ==
    IF n = 0 THEN Polynomial(F, << 1 >>)
    ELSE PolyMul(F, a, PolyProductOfCopies(F, a, n - 1))

\* The same for a fraction a.
RECURSIVE FractionProductOfCopies(_, _, _)
FractionProductOfCopies(p, a, n) ==
    IF n = 0 THEN FractionInit(p, 1, 1).val
    ELSE FractionMul(p, a, FractionProductOfCopies(p, a, n - 1)).val

\* The power returned is the product of n copies of the element.
PowerIsProduct ==
    /\ Returned("CommutativeRing.__pow__") =>
           /\ outcome.exc = "none"
           /\ outcome.val = PolyProductOfCopies(invocation.arguments[1],
                                                invocation.arguments[2],
                                                invocation.arguments[3])
    /\ Returned("Field.__pow__") =>
           /\ outcome.exc = "none"
           /\ FractionEq(invocation.arguments[1], outcome.val,
                         FractionProductOfCopies(invocation.arguments[1],
                                                 invocation.arguments[2],
                                                 invocation.arguments[3]))

\* C18: for every element a of a ring or a field and every integer n that
\* is not negative, a ** n is the product of n copies of a; a ** 0 is the
\* one of the ring, and a ** 1 is a.
C18_Power ==
    /\ PowerIsProduct
    /\ (Returned("CommutativeRing.__pow__") /\ invocation.arguments[3] = 0) =>
           outcome.val = Polynomial(invocation.arguments[1], << 1 >>)
    /\ (Returned("Field.__pow__") /\ invocation.arguments[3] = 0) =>
           FractionEq(invocation.arguments[1], outcome.val,
                      [numerator |-> 1, denominator |-> 1])
    /\ ((Returned("CommutativeRing.__pow__") \/ Returned("Field.__pow__"))
           /\ invocation.arguments[3] = 1) =>
           outcome.val = invocation.arguments[2]

\* The same statement for the exponents n >= 1.
C18_PositivePower ==
    invocation.arguments[3] >= 1 =>
        /\ PowerIsProduct
        /\ ((Returned("CommutativeRing.__pow__") \/ Returned("Field.__pow__"))
               /\ invocation.arguments[3] = 1) =>
               outcome.val = invocation.arguments[2]

\* (x + 1) ** 3 over GF(3) is x^3 + 1.
C18_Cube ==
    /\ Returned("CommutativeRing.__pow__")
    /\ invocation.arguments = << 3, << 1, 1 >>, 3 >>
    /\ outcome = Ok(<< 1, 0, 0, 1 >>)

----------------------------------------------------------------------------
(* support/operators.py: operand_casting on R = Polynomials( Integers ).   *)
(* An operand is the record of its class and its value; the value of an    *)
(* element of R is its list of integer coefficients.                       *)

MaxCoefficient == 1

ElementClass == "Polynomials<Integers>"

Element(coefficients) == [class |-> ElementClass, value |-> coefficients]

\* Returned by an operator method that does not handle the operand.
NotImplemented == [exc |-> "NotImplemented", val |-> << >>]

\* The objects True and False, and a tuple.
Bool(b) == [class |-> "bool", value |-> b]

Tuple(t) == [class |-> "tuple", value |-> t]

\* The call has returned False.
ReturnedFalse(result) ==
    result.exc = "none" /\ result.val.class = "bool" /\ ~result.val.value

\* Integers( c ), that is int( c ): an int is taken as it is, a str is
\* parsed as a decimal literal, None is no number.
IntegersCast(c) ==
    CASE c.class = "int" -> Ok(c.value)
      [] c.class = "str" ->
            IF c.value \in { "0", "1", "-1" }
            THEN Ok(CHOOSE k \in -1..1 : ToString(k) = c.value)
            ELSE Raise("ValueError")
      [] OTHER -> Raise("TypeError")

\* Polynomials.__init__( element_description ): an element of the class is
\* copied, everything else is taken as the one coefficient.
PolynomialsInit(element_description) ==
    IF element_description.class = ElementClass THEN Ok(element_description)
    ELSE LET c == IntegersCast(element_description)
         IN  IF c.exc # "none" THEN c
             ELSE Ok(Element(remove_leading_zeros(<< c.val >>)))

\* x / d on int objects for d = 1 or d = -1: the float of x * d, which
\* Integers() turns into the int again.
IntTrueDiv(x, d) == IF d = 1 THEN x ELSE -x

\* The loops of Polynomials.__divmod__ over the integers, for k downwards.
RECURSIVE IntDivLoop(_, _, _, _, _)
IntDivLoop(quotient, dividend, divisor, n, k) ==
    IF k < 0 THEN << quotient, dividend >>
    ELSE LET q == IntTrueDiv(dividend[n + k + 1], divisor[n + 1])
         IN  IntDivLoop([quotient EXCEPT ![k + 1] = q],
                        [j \in DOMAIN dividend |->
                            IF j - 1 >= k /\ j - 1 < n + k
                            THEN dividend[j] - q * divisor[j - k]
                            ELSE dividend[j]],
                        divisor, n, k - 1)

\* What the loops of Polynomials.__mul__ add to result[k], from a[i] on.
RECURSIVE IntConvolve(_, _, _, _)
IntConvolve(a, b, k, i) ==
    IF i > Len(a) THEN 0
    ELSE (IF k + 1 - i \in DOMAIN b THEN a[i] * b[k + 1 - i] ELSE 0)
             + IntConvolve(a, b, k, i + 1)

\* -a for an element a of R
ElementNeg(a) == Element([i \in DOMAIN a.value |-> -a.value[i]])

\* The methods __eq__, __add__, __mul__ and __divmod__ that Polynomials
\* defines, on two elements of R.
Operation(name, self, other) ==
    LET a == self.value
        b == other.value
        longer == IF Len(a) > Len(b) THEN Len(a) ELSE Len(b)
    IN  CASE name = "__eq__" -> Ok(Bool(a = b))
          [] name = "__add__" ->
                Ok(Element(remove_leading_zeros(
                       [i \in 1..longer |-> Padded(a, i) + Padded(b, i)])))
          [] name = "__mul__" ->
                IF a = << >> \/ b = << >> THEN Ok(Element(<< >>))
                ELSE Ok(Element(remove_leading_zeros(
                         [k \in 1..(Len(a) + Len(b)) |-> IntConvolve(a, b, k, 1)])))
          [] name = "__divmod__" ->
                LET n == Len(b) - 1
                    size == Len(a) - n
                    r == IntDivLoop([k \in 1..size |-> 0], a, b, n, size - 1)
                IN  IF size <= 0
                    THEN Ok(Tuple(<< Element(<< >>), Element(a) >>))
                    ELSE Ok(Tuple(<< Element(remove_leading_zeros(r[1])),
                                     Element(remove_leading_zeros(SubSeq(r[2], 1, n))) >>))

\* casting_wrapper( self, other ) around the method name: an operand of
\* another class is cast first, and a TypeError on the way makes the method
\* answer NotImplemented.
casting_wrapper(name, self, other) ==
    IF other.class = self.class THEN Operation(name, self, other)
    ELSE LET cast == PolynomialsInit(other)
         IN  IF cast.exc = "TypeError" THEN NotImplemented
             ELSE IF cast.exc # "none" THEN cast
             ELSE Operation(name, self, cast.val)

\* The wrapped methods as the class has them.
Wrapped(name, self, other) == casting_wrapper(name, self, other)

\* -other for an operand of any class
OperandNeg(other) ==
    CASE other.class = ElementClass -> Ok(ElementNeg(other))
      [] other.class = "int" -> Ok([other EXCEPT !.value = -other.value])
      [] OTHER -> Raise("TypeError")

\* What Python makes of NotImplemented: the operand classes int, str and
\* NoneType have no reflected method that takes an element of R, so that
\* == falls back to the identity of the objects and every other operator
\* raises TypeError.
Dispatched(operator, result) ==
    IF result.exc # "NotImplemented" THEN result
    ELSE IF operator = "==" THEN Ok(Bool(FALSE))
    ELSE Raise("TypeError")

\* self <operator> other, and divmod( self, other ): __sub__, __floordiv__
\* and __mod__ come from CommutativeRing; no class has __truediv__.
BinaryOperator(operator, self, other) ==
    LET division == Dispatched("divmod", Wrapped("__divmod__", self, other))
        negative == OperandNeg(other)
    IN  CASE operator = "==" -> Dispatched(operator, Wrapped("__eq__", self, other))
          [] operator = "+" -> Dispatched(operator, Wrapped("__add__", self, other))
          [] operator = "*" -> Dispatched(operator, Wrapped("__mul__", self, other))
          [] operator = "divmod" -> division
          [] operator = "-" ->
                IF negative.exc # "none" THEN negative
                ELSE Dispatched(operator, Wrapped("__add__", self, negative.val))
          [] operator = "//" ->
                IF division.exc # "none" THEN division ELSE Ok(division.val.value[1])
          [] operator = "%" ->
                IF division.exc # "none" THEN division ELSE Ok(division.val.value[2])
          [] operator = "/" -> Raise("TypeError")

Operators == { "==", "+", "-", "*", "/", "divmod", "//", "%" }

\* The elements of R with at most two coefficients.
Elements2 ==
    { Element(cs) : cs \in { l \in ListsUpTo((-MaxCoefficient)..MaxCoefficient, 2) :
                                l = << >> \/ l[Len(l)] # 0 } }

\* Elements of R, ints, strs and None.
Operands ==
    Elements2
        \cup { [class |-> "int", value |-> k] : k \in (-MaxCoefficient)..MaxCoefficient }
        \cup { [class |-> "str", value |-> "1"], [class |-> "str", value |-> "abc"],
               [class |-> "NoneType", value |-> "None"] }

\* The operand is of another class and R( other ) raises.
Uncastable(other) ==
    other.class # ElementClass /\ PolynomialsInit(other).exc # "none"

\* All pairs but the divisions by zero.
InitCast ==
    /\ debug = TRUE
    /\ invocation \in
           { Invocation(t[1], << t[2], t[3] >>) :
                 t \in { u \in Operators \X Elements2 \X Operands :
                             u[1] \in { "divmod", "//", "%" } =>
                                 (Uncastable(u[3])
                                    \/ PolynomialsInit(u[3]).val.value # << >>) } }
    /\ outcome = NotCalled
    /\ OthersIdle("call")

\* self <operator> other
BinaryOperation ==
    \E operator \in Operators :
        Return(operator, BinaryOperator(operator, invocation.arguments[1],
                                        invocation.arguments[2]))

NextCast == BinaryOperation

SpecCast == InitCast /\ [][NextCast]_vars

\* C19: a binary operation between an element and an operand of another
\* class that cannot be cast returns no element: every arithmetic operator
\* raises TypeError and == is False.
C19_UncastableOperand ==
    \A operator \in Operators :
        (Returned(operator) /\ Uncastable(invocation.arguments[2])) =>
            IF operator = "==" THEN ReturnedFalse(outcome)
            ELSE outcome.exc = "TypeError"

\* The same statement for the operands whose cast raises TypeError.
C19_TypeErrorOperand ==
    \A operator \in Operators :
        (/\ Returned(operator)
         /\ Uncastable(invocation.arguments[2])
         /\ PolynomialsInit(invocation.arguments[2]).exc = "TypeError") =>
            IF operator = "==" THEN ReturnedFalse(outcome)
            ELSE outcome.exc = "TypeError"

\* No operation on an uncastable operand has returned an element.
C19_NoElementReturned ==
    \A operator \in Operators :
        (Returned(operator) /\ Uncastable(invocation.arguments[2])) =>
            outcome.exc # "none" \/ ReturnedFalse(outcome)

\* x + None has raised TypeError.
C19_AddedNone ==
    /\ Returned("+")
    /\ invocation.arguments = << Element(<< 0, 1 >>),
                                 [class |-> "NoneType", value |-> "None"] >>
    /\ outcome = Raise("TypeError")

----------------------------------------------------------------------------
(* rings/polynomials/naive.py: the methods without arguments of an element *)
(* of Polynomials( FiniteField( F ) ), looked up by name.                  *)

\* The names that the class body of Polynomials binds.
PolynomialsAttributes ==
    { "__init__", "coefficients", "leading_coefficient", "degree", "__bool__",
      "__eq__", "__add__", "__neg__", "__mul__", "__divmod__", "__call__",
      "coefficient_field", "zero", "one" }

\* The names that the class body of CommutativeRing binds.
CommutativeRingAttributes ==
    { "__neq__", "__radd__", "__sub__", "__rsub__", "__rmul__", "__rdivmod__",
      "__floordiv__", "__rfloordiv__", "__mod__", "__rmod__", "__pow__",
      "__bool__", "__eq__", "__add__", "__neg__", "__mul__", "__divmod__" }

\* self.name: the attribute is looked up in Polynomials and then in its
\* base class CommutativeRing; a name that neither binds is an
\* AttributeError.
GetAttribute(name) ==
    IF name \in PolynomialsAttributes \cup CommutativeRingAttributes
    THEN Ok(name)
    ELSE Raise("AttributeError")

\* self.name() for an element self of Polynomials( FiniteField( F ) ) with
\* the coefficient list a.
MethodCall(name, F, a) ==
    LET attribute == GetAttribute(name)
    IN  IF attribute.exc # "none" THEN attribute
        ELSE CASE name = "coefficients" -> Ok(Tuple(a))
               [] name = "leading_coefficient" -> Ok(Tuple(<< leading_coefficient(a) >>))
               [] name = "degree" -> Ok(Tuple(<< degree(a) >>))
               [] name = "__bool__" -> Ok(Bool(a # << >>))
               [] name = "__neg__" -> Ok(Tuple(PolyNeg(F, a)))
               [] OTHER -> Raise("TypeError")

\* The methods called here; all but the first are defined by Polynomials
\* and take no argument.
MethodNames ==
    { "multiplicative_inverse", "coefficients", "leading_coefficient", "degree",
      "__bool__", "__neg__" }

InverseFields == { 2, 3, 5 }

\* The polynomials of at most two coefficients over GF( F ).
RingElements(F) ==
    { l \in ListsUpTo(0..(F - 1), 2) : l = << >> \/ l[Len(l)] # 0 }

\* The units of Polynomials( FiniteField( F ) ): the non-zero constants.
IsConstantUnit(a) == Len(a) = 1

InitInverse ==
    /\ debug = TRUE
    /\ invocation \in
           { Invocation(t[1], << t[2][1], t[2][2] >>) :
                 t \in MethodNames
                          \X { Fa \in InverseFields \X ListsUpTo(0..4, 2) :
                                  Fa[2] \in RingElements(Fa[1]) } }
    /\ outcome = NotCalled
    /\ OthersIdle("call")

\* self.name()
CallMethod ==
    \E name \in MethodNames :
        Return(name, MethodCall(name, invocation.arguments[1],
                                invocation.arguments[2]))

NextInverse == CallMethod

SpecInverse == InitInverse /\ [][NextInverse]_vars

\* C20: multiplicative_inverse() on an element of a polynomial ring, unit
\* or not, raises TypeError and returns no value.
C20_MultiplicativeInverse ==
    Returned("multiplicative_inverse") => outcome.exc = "TypeError"

\* multiplicative_inverse() on an element of a polynomial ring returns no
\* value, whatever it raises.
C20_NoInverseReturned ==
    Returned("multiplicative_inverse") => outcome.exc # "none"

\* multiplicative_inverse() has been called on the unit 2 of GF(3)[x].
C20_InverseOfUnit ==
    /\ Returned("multiplicative_inverse")
    /\ invocation.arguments = << 3, << 2 >> >>
    /\ IsConstantUnit(invocation.arguments[2])
    /\ outcome.exc = "AttributeError"

----------------------------------------------------------------------------
(* fields/finite/naive.py and support/types.py: the template FiniteField,  *)
(* specialized with a size and used for arithmetic.                        *)

MaxFieldSize == 9

\* TypeTemplate.__call__ on a template class with the unbound parameters
\* given: the positional arguments are bound to the first parameters and the
\* specialized class is returned; more arguments than parameters are a
\* TypeError.  The arguments themselves are not examined.
TypeTemplateCall(parameter_map, unbound_parameters, arguments) ==
    IF Len(arguments) > Len(unbound_parameters) THEN Raise("TypeError")
    ELSE Ok([name \in DOMAIN parameter_map
                      \cup { unbound_parameters[i] : i \in DOMAIN arguments } |->
                IF name \in DOMAIN parameter_map THEN parameter_map[name]
                ELSE arguments[CHOOSE i \in DOMAIN arguments :
                                   unbound_parameters[i] = name]])

\* FiniteField( size ): the class statement binds _ring to Integers, the
\* call binds _modulus.
FiniteField(size) ==
    TypeTemplateCall([_ring |-> "Integers"], << "_modulus" >>, << size >>)

\* FiniteField.size(): characteristic() ** power(), and power() is 1.
FiniteFieldSize(cls) == cls._modulus ^ 1

\* function( arguments ) on the class that FiniteField( arguments[1] )
\* returns.
FieldOperation(function, arguments) ==
    LET cls == FiniteField(arguments[1])
        m == cls.val._modulus
    IN  IF cls.exc # "none" \/ function = "FiniteField" THEN cls
        ELSE CASE function = "size" -> Ok(FiniteFieldSize(cls.val))
               [] function = "__add__" ->
                     Ok(QAdd(m, QuotientClass(m, arguments[2]),
                             QuotientClass(m, arguments[3])))
               [] function = "__mul__" ->
                     Ok(QMul(m, QuotientClass(m, arguments[2]),
                             QuotientClass(m, arguments[3])))
               [] function = "multiplicative_inverse" ->
                     multiplicative_inverse(m, QuotientClass(m, arguments[2]))

FieldFunctions == { "FiniteField", "size", "__add__", "__mul__", "multiplicative_inverse" }

FieldSizes == 2..MaxFieldSize

InitField ==
    /\ debug = TRUE
    /\ invocation \in
           { Invocation(f, << n >>) : f \in { "FiniteField", "size" }, n \in FieldSizes }
             \cup { Invocation("multiplicative_inverse", << t[1], t[2] >>) :
                        t \in { u \in FieldSizes \X (0..MaxFieldSize) : u[2] < u[1] } }
             \cup { Invocation(f, << t[1], t[2], t[3] >>) :
                        f \in { "__add__", "__mul__" },
                        t \in { u \in FieldSizes \X (0..MaxFieldSize) \X (0..MaxFieldSize) :
                                    u[2] < u[1] /\ u[3] < u[1] } }
    /\ outcome = NotCalled
    /\ OthersIdle("call")

\* FiniteField( size ), and an operation on the class it returns
SpecializeAndUse ==
    \E function \in FieldFunctions :
        Return(function, FieldOperation(function, invocation.arguments))

NextField == SpecializeAndUse

SpecField == InitField /\ [][NextField]_vars

C21_TwoTimesTwoInFour ==
    /\ Returned("__mul__")
    /\ invocation.arguments = << 4, 2, 2 >>
    /\ outcome.exc = "none"
    /\ outcome.val = 0

\* The size of a class of prime size is the prime.
C21_PrimeSize ==
    (Returned("size") /\ IsPrime(invocation.arguments[1])) =>
        (outcome.exc = "none" /\ outcome.val = invocation.arguments[1])

----------------------------------------------------------------------------
(* elliptic_curves/naive.py: is_singular() on the template parameters as   *)
(* they were supplied.  A parameter is the record of its class, "int" for  *)
(* a Python integer and "field" for an element of the field, and of its    *)
(* value.                                                                  *)

SingularFields == { 5, 7 }

\* 4 * cls._A**3 + 27 * cls._B ** 2: Python integers are multiplied and
\* added as integers; as soon as one operand is a field element the other
\* one is cast into the field and the result is a field element.
Discriminant(p, A, B) ==
    LET Power(c, n) == IF c.class = "int" THEN [c EXCEPT !.value = c.value ^ n]
                       ELSE [c EXCEPT !.value = QPow(p, c.value, n)]
        Times(k, c) == IF c.class = "int" THEN [c EXCEPT !.value = k * c.value]
                       ELSE [c EXCEPT !.value = QMul(p, QuotientClass(p, k), c.value)]
        Plus(c, d) == IF c.class = "int" /\ d.class = "int"
                      THEN [c EXCEPT !.value = c.value + d.value]
                      ELSE [class |-> "field",
                            value |-> QAdd(p, QuotientClass(p, c.value),
                                           QuotientClass(p, d.value))]
    IN  Plus(Times(4, Power(A, 3)), Times(27, Power(B, 2)))

\* EllipticCurve( FiniteField( p ), A, B ).is_singular(): the truth value
\* of an integer and of a field element is that it is not zero.
IsSingularOf(p, A, B) == Bool(Discriminant(p, A, B).value = 0)

\* tools/paramter_generator.py: non_singular( p, A, B ) on integers
non_singular(p, A, B) ==
    IF debug /\ ~(p > 3) THEN Raise("AssertionError")
    ELSE Ok(Bool(PyMod(4 * A ^ 3 + 27 * B ^ 2, p) # 0))

\* The parameters of a curve over GF( p ), as integers and as field elements.
Parameters(p) == [class : { "int", "field" }, value : 0..(p - 1)]

\* The calls of function with parameters of the classes given.
SingularCalls(function, classes) ==
    { Invocation(function, << t[1], t[2], t[3] >>) :
          t \in { u \in SingularFields \X Parameters(7) \X Parameters(7) :
                      /\ u[2].value < u[1] /\ u[3].value < u[1]
                      /\ u[2].class \in classes /\ u[3].class \in classes } }

InitSingular ==
    /\ debug \in BOOLEAN
    /\ invocation \in SingularCalls("is_singular", { "int", "field" })
                         \cup SingularCalls("non_singular", { "int" })
    /\ outcome = NotCalled
    /\ OthersIdle("call")

IsSingular ==
    Return("is_singular", Ok(IsSingularOf(invocation.arguments[1],
                                          invocation.arguments[2],
                                          invocation.arguments[3])))

NonSingular ==
    Return("non_singular", non_singular(invocation.arguments[1],
                                        invocation.arguments[2].value,
                                        invocation.arguments[3].value))

NextSingular == IsSingular \/ NonSingular

SpecSingular == InitSingular /\ [][NextSingular]_vars

\* 4 A^3 + 27 B^2 is zero in GF( p ), for the parameters of the call.
ZeroDiscriminant ==
    LET p == invocation.arguments[1]
        A == invocation.arguments[2].value
        B == invocation.arguments[3].value
    IN  (4 * A * A * A + 27 * B * B) % p = 0

\* C22: is_singular() is True if and only if 4 A^3 + 27 B^2 is zero in
\* GF( p ), whether A and B were given as integers or as field elements.
C22_IsSingular ==
    Returned("is_singular") =>
        (outcome.exc = "none" /\ outcome.val.value = ZeroDiscriminant)

\* The same when at least one parameter is a field element, and for
\* non_singular(), which returns the opposite.
C22_IsSingularOfFieldElements ==
    /\ (/\ Returned("is_singular")
        /\ "field" \in { invocation.arguments[2].class, invocation.arguments[3].class })
           => (outcome.exc = "none" /\ outcome.val.value = ZeroDiscriminant)
    /\ Returned("non_singular")
           => (outcome.exc = "none" /\ outcome.val.value = ~ZeroDiscriminant)

\* y^2 = x^3 + 2x + 2 over GF(5), given as field elements, is singular.
C22_SingularOverFive ==
    /\ Returned("is_singular")
    /\ invocation.arguments = << 5, [class |-> "field", value |-> 2],
                                 [class |-> "field", value |-> 2] >>
    /\ outcome.exc = "none"
    /\ outcome.val.value

----------------------------------------------------------------------------
(* support/running.py: ParallelParser instances in separate processes on   *)
(* one input file.  A position in a file is the number of lines before it. *)
(* The sections that hold the lock of the communication file exclude each  *)
(* other, so that each of them is one step; between two of them any other  *)
(* process may take steps.                                                 *)

MaxParsers == 2

MaxLines == 3

Processes == 1..MaxParsers

\* What __lock reads from an empty communication file (the ValueError case)
EmptyPipe == [parsers |-> 0, offset |-> 0, line |-> 0]

NewInstance ==
    [pc |-> "new", pipe |-> 0, parsers |-> 0, tell |-> 0, current_line |-> 0,
     line |-> 0]

InitParser ==
    /\ debug = TRUE
    /\ input_file \in ListsUpTo({ "data", "comment" }, MaxLines)
    /\ pipe_name = 0
    /\ pipe_files = << >>
    /\ instances = [process \in Processes |-> NewInstance]
    /\ yields = [l \in DOMAIN input_file |-> 0]
    /\ OthersIdle("parser")

UnchangedByParser == UNCHANGED debug /\ OthersUnchanged("parser")

\* ParallelParser.__init__: the pipe is opened in mode "at+", which creates
\* the file when the name leads to none.
ParserInit(process) ==
    /\ instances[process].pc = "new"
    /\ IF pipe_name = 0
       THEN /\ pipe_files' = Append(pipe_files, EmptyPipe)
            /\ pipe_name' = Len(pipe_files) + 1
       ELSE UNCHANGED << pipe_files, pipe_name >>
    /\ instances' = [instances EXCEPT ![process].pc = "register",
                                      ![process].pipe = pipe_name']
    /\ UNCHANGED << input_file, yields >>
    /\ UnchangedByParser

\* __iter__, the first with statement: under the lock, the number of
\* parsers is read and written back increased.
Register(process) ==
    LET self == instances[process]
        data == pipe_files[self.pipe]
    IN  /\ self.pc = "register"
        /\ pipe_files' = [pipe_files EXCEPT ![self.pipe].parsers = data.parsers + 1]
        /\ instances' = [instances EXCEPT ![process].pc = "readline"]
        /\ UNCHANGED << input_file, pipe_name, yields >>
        /\ UnchangedByParser

\* line = self.__file.readline() before the loop: the test for an empty file
FirstReadline(process) ==
    /\ instances[process].pc = "readline"
    /\ instances' = [instances EXCEPT
           ![process].pc = IF input_file = << >> THEN "unregister" ELSE "locked_read",
           ![process].line = IF input_file = << >> THEN 0 ELSE 1]
    /\ UNCHANGED << input_file, pipe_name, pipe_files, yields >>
    /\ UnchangedByParser

\* The first line after offset that is neither empty nor a comment; 0 when
\* the file ends before one (readline returns the empty string).
NextLine(offset) ==
    IF \E l \in (offset + 1)..Len(input_file) : input_file[l] = "data"
    THEN CHOOSE l \in (offset + 1)..Len(input_file) :
             /\ input_file[l] = "data"
             /\ \A k \in (offset + 1)..(l - 1) : input_file[k] # "data"
    ELSE 0

\* The with statement inside the loop: under the lock, the shared position
\* is read, the file is read from there up to the next line to yield, and
\* the lock is released.
LockedRead(process) ==
    LET self == instances[process]
        data == pipe_files[self.pipe]
        line == NextLine(data.offset)
        readlines == IF line # 0 THEN line - data.offset
                     ELSE Len(input_file) - data.offset + 1
    IN  /\ self.pc = "locked_read"
        /\ instances' = [instances EXCEPT
               ![process].pc = IF line # 0 THEN "update" ELSE "unregister",
               ![process].parsers = data.parsers,
               ![process].line = line,
               ![process].current_line = data.line + readlines,
               ![process].tell = IF line # 0 THEN line ELSE Len(input_file)]
        /\ UNCHANGED << input_file, pipe_name, pipe_files, yields >>
        /\ UnchangedByParser

\* if line: self.__update( parsers, self.__file.tell(), current_line ), which
\* takes the lock for itself, and the yield of the line.
UpdateAndYield(process) ==
    LET self == instances[process]
    IN  /\ self.pc = "update"
        /\ pipe_files' = [pipe_files EXCEPT ![self.pipe] =
               [parsers |-> self.parsers, offset |-> self.tell,
                line |-> self.current_line]]
        /\ yields' = [yields EXCEPT ![self.line] = @ + 1]
        /\ instances' = [instances EXCEPT ![process].pc = "locked_read"]
        /\ UNCHANGED << input_file, pipe_name >>
        /\ UnchangedByParser

\* The last with statement of __iter__: under the lock, the number of
\* parsers is read and written back decreased.
Unregister(process) ==
    LET self == instances[process]
        data == pipe_files[self.pipe]
    IN  /\ self.pc = "unregister"
        /\ pipe_files' = [pipe_files EXCEPT ![self.pipe].parsers = data.parsers - 1]
        /\ instances' = [instances EXCEPT ![process].pc = "del"]
        /\ UNCHANGED << input_file, pipe_name, yields >>
        /\ UnchangedByParser

\* __del__, the with statement: remove_pipe is whether the file holds the
\* number 0.
Del(process) ==
    LET self == instances[process]
        data == pipe_files[self.pipe]
    IN  /\ self.pc = "del"
        /\ instances' = [instances EXCEPT
               ![process].pc = IF data.parsers = 0 THEN "remove" ELSE "done"]
        /\ UNCHANGED << input_file, pipe_name, pipe_files, yields >>
        /\ UnchangedByParser

\* __del__, if remove_pipe: os.remove takes away whatever file the name
\* leads to; the processes that have the file open keep it.
RemovePipe(process) ==
    /\ instances[process].pc = "remove"
    /\ pipe_name' = 0
    /\ instances' = [instances EXCEPT ![process].pc = "done"]
    /\ UNCHANGED << input_file, pipe_files, yields >>
    /\ UnchangedByParser

NextParser ==
    \E process \in Processes :
        \/ ParserInit(process)
        \/ Register(process)
        \/ FirstReadline(process)
        \/ LockedRead(process)
        \/ UpdateAndYield(process)
        \/ Unregister(process)
        \/ Del(process)
        \/ RemovePipe(process)

SpecParser == InitParser /\ [][NextParser]_vars

\* The instance is between its registration and its unregistration.
Iterating(process) ==
    instances[process].pc \in { "readline", "locked_read", "update", "unregister" }

AllDone == \A process \in Processes : instances[process].pc = "done"

\* The instances work on one communication file: each of them has opened
\* the file that the first of them created.
OnePipe == \A process \in Processes : instances[process].pipe \in { 0, 1 }

\* C23: when several instances iterate over one input file concurrently,
\* every line that is neither empty nor a comment is yielded by exactly one
\* instance: none is ever yielded twice, and when all instances have
\* finished none has been skipped.
C23_EveryLineYieldedOnce ==
    OnePipe =>
        /\ \A l \in DOMAIN input_file : yields[l] <= 1
        /\ AllDone => \A l \in DOMAIN input_file :
                          input_file[l] = "data" => yields[l] = 1

\* No line is skipped, and no empty line or comment is yielded.
C23_NoLineSkipped ==
    /\ \A l \in DOMAIN input_file : input_file[l] # "data" => yields[l] = 0
    /\ AllDone => \A l \in DOMAIN input_file :
                      input_file[l] = "data" => yields[l] >= 1

\* Two instances have finished and a line was yielded twice.
C23_YieldedTwice ==
    OnePipe /\ AllDone /\ \E l \in DOMAIN input_file : yields[l] = 2

\* The instances registered in a communication file and not unregistered.
Registered(pipe) ==
    { process \in Processes : instances[process].pipe = pipe /\ Iterating(process) }

\* The counter of every communication file is the number of its instances.
CounterCountsRegistered ==
    \A pipe \in DOMAIN pipe_files :
        pipe_files[pipe].parsers = Cardinality(Registered(pipe))

\* A step that removes the communication file is taken while no instance is
\* iterating.
RemovedByTheLast ==
    \A process \in Processes :
        RemovePipe(process) => \A other \in Processes : ~Iterating(other)

\* C30: the counter in the communication file is the number of instances
\* that have registered and not yet unregistered, and the file is removed
\* only by the last instance to finish, never while another one iterates.
C30_ParserCounter == []CounterCountsRegistered /\ [][RemovedByTheLast]_vars

\* The same for an instance that runs while no other one has been
\* constructed.
C30_AloneCounted ==
    (\E process \in Processes :
         \A other \in Processes \ { process } : instances[other].pc = "new")
        => CounterCountsRegistered

\* The communication file is gone while an instance that opened it is
\* still iterating.
C30_RemovedWhileIterating ==
    /\ pipe_name = 0
    /\ \E process \in Processes : instances[process].pc = "done"
    /\ \E process \in Processes : Iterating(process)

----------------------------------------------------------------------------
(* tools/callgraph.py: the CallGraph of Functions and Calls.  A Function   *)
(* is named by its (filename, line number, name) triple, a Call by the     *)
(* pair of its caller and its callee; times are whole ticks of the clock.  *)

MaxProfile == 6

FunctionNames == { "f", "g", "h" }

NoOffsets ==
    [inline_time_offset |-> 0, primitive_callcount_offset |-> 0,
     total_callcount_offset |-> 0]

\* The profiling data of one entry of a pstats.Stats object: a plain call
\* and a recursive one.
CallData ==
    { [primitive_callcount |-> 1, total_callcount |-> 1, inline_time |-> 1,
       cumulative_time |-> 1],
      [primitive_callcount |-> 0, total_callcount |-> 1, inline_time |-> 1,
       cumulative_time |-> 2] }

\* The sum of one field over the Calls of keys.
RECURSIVE CallSum(_, _, _)
CallSum(calls, keys, field) ==
    IF keys = { } THEN 0
    ELSE LET call == CHOOSE k \in keys : TRUE
         IN  calls[call][field] + CallSum(calls, keys \ { call }, field)

\* Function.incoming_calls and outgoing_calls
incoming_calls(calls, function) == { k \in DOMAIN calls : k[2] = function }

outgoing_calls(calls, function) == { k \in DOMAIN calls : k[1] = function }

\* Function.inline_time, cumulative_time, primitive_callcount and
\* total_callcount
inline_time(functions, calls, function) ==
    functions[function].inline_time_offset
        + CallSum(calls, incoming_calls(calls, function), "inline_time")

cumulative_time(functions, calls, function) ==
    inline_time(functions, calls, function)
        + CallSum(calls, outgoing_calls(calls, function), "cumulative_time")

primitive_callcount(functions, calls, function) ==
    functions[function].primitive_callcount_offset
        + CallSum(calls, incoming_calls(calls, function), "primitive_callcount")

total_callcount(functions, calls, function) ==
    functions[function].total_callcount_offset
        + CallSum(calls, incoming_calls(calls, function), "total_callcount")

\* CallGraph._setdefault_function: the functions with every name of names
\* that is new added without offsets.
setdefault_function(functions, names) ==
    [name \in DOMAIN functions \cup names |->
        IF name \in DOMAIN functions THEN functions[name] ELSE NoOffsets]

\* CallGraph._add_call: the data is added to those of the Call from caller
\* to callee when there is one.
add_call(calls, caller, callee, data) ==
    LET call == << caller, callee >>
    IN  [k \in DOMAIN calls \cup { call } |->
            IF k # call THEN calls[k]
            ELSE IF call \notin DOMAIN calls THEN data
            ELSE [field \in DOMAIN data |-> data[field] + calls[call][field]]]

\* All the time of the profile: what bounds the graphs explored.
ProfileSize ==
    CallSum(graph_calls, DOMAIN graph_calls, "inline_time")
        + CallSum(graph_calls, DOMAIN graph_calls, "cumulative_time")
        + CallSum([name \in DOMAIN graph_functions |->
                      [t |-> graph_functions[name].inline_time_offset]],
                  DOMAIN graph_functions, "t")

InitGraph ==
    /\ debug = TRUE
    /\ graph_functions = << >>
    /\ graph_calls = << >>
    /\ OthersIdle("graph")

UnchangedByGraph == UNCHANGED debug /\ OthersUnchanged("graph")

\* CallGraph.add( stats ) for a stats object with the one entry of function
\* that names one caller.
AddCalled ==
    \E function, caller \in FunctionNames, data \in CallData :
        /\ ProfileSize + data.inline_time + data.cumulative_time <= MaxProfile
        /\ graph_functions' = setdefault_function(graph_functions, { function, caller })
        /\ graph_calls' = add_call(graph_calls, caller, function, data)
        /\ UnchangedByGraph

\* CallGraph.add( stats ) for a stats object with the one entry of a root
\* function, which has no caller: its data go to the offsets.
AddRoot ==
    \E function \in FunctionNames, data \in CallData :
        /\ ProfileSize + data.inline_time <= MaxProfile
        /\ graph_functions' =
               [setdefault_function(graph_functions, { function }) EXCEPT
                   ![function].primitive_callcount_offset = @ + data.primitive_callcount,
                   ![function].total_callcount_offset = @ + data.total_callcount,
                   ![function].inline_time_offset = @ + data.inline_time]
        /\ UNCHANGED graph_calls
        /\ UnchangedByGraph

\* CallGraph._remove_function: the function and its Calls leave the graph.
remove_function(functions, calls, function) ==
    [functions |-> [name \in DOMAIN functions \ { function } |-> functions[name]],
     calls |-> [k \in { c \in DOMAIN calls : c[1] # function /\ c[2] # function } |->
                   calls[k]]]

\* A treat_as_builtin that gives the callers the inline time of their Call
\* in place of its cumulative time.
BuiltinOffsetsInline(functions, calls, function) ==
    [name \in DOMAIN functions |->
        [inline_time_offset |->
             functions[name].inline_time_offset
                 + (IF << name, function >> \in DOMAIN calls
                    THEN calls[<< name, function >>].inline_time ELSE 0)
                 + (IF << function, name >> \in DOMAIN calls
                    THEN calls[<< function, name >>].inline_time ELSE 0),
         primitive_callcount_offset |->
             functions[name].primitive_callcount_offset
                 + (IF << function, name >> \in DOMAIN calls
                    THEN calls[<< function, name >>].primitive_callcount ELSE 0),
         total_callcount_offset |->
             functions[name].total_callcount_offset
                 + (IF << function, name >> \in DOMAIN calls
                    THEN calls[<< function, name >>].total_callcount ELSE 0)]]

\* The offsets after the two loops of treat_as_builtin( function ): every
\* caller gets the cumulative time of its Call, every callee the inline
\* time and the call counts of its Call.
BuiltinOffsets(functions, calls, function) ==
    LET called(name) == << name, function >> \in DOMAIN calls
        calling(name) == << function, name >> \in DOMAIN calls
        from(name, field) == IF calling(name) THEN calls[<< function, name >>][field]
                             ELSE 0
    IN  [name \in DOMAIN functions |->
            [inline_time_offset |->
                 functions[name].inline_time_offset
                     + (IF called(name)
                        THEN calls[<< name, function >>].cumulative_time ELSE 0)
                     + from(name, "inline_time"),
             primitive_callcount_offset |->
                 functions[name].primitive_callcount_offset
                     + from(name, "primitive_callcount"),
             total_callcount_offset |->
                 functions[name].total_callcount_offset
                     + from(name, "total_callcount")]]

\* CallGraph.treat_as_builtin( function )
treat_as_builtin(functions, calls, function) ==
    remove_function(BuiltinOffsets(functions, calls, function), calls, function)

TreatAsBuiltin(function) ==
    /\ function \in DOMAIN graph_functions
    /\ LET graph == treat_as_builtin(graph_functions, graph_calls, function)
       IN  /\ graph_functions' = graph.functions
           /\ graph_calls' = graph.calls
    /\ UnchangedByGraph

NextGraph == AddCalled \/ AddRoot \/ \E function \in FunctionNames : TreatAsBuiltin(function)

SpecGraph == InitGraph /\ [][NextGraph]_vars

\* C24: treat_as_builtin( f ) removes f and every Call to or from f, and
\* leaves the cumulative time, the primitive call count and the total call
\* count of every other function as they were.
C24_TreatAsBuiltin ==
    [][\A f \in FunctionNames :
          TreatAsBuiltin(f) =>
              /\ f \notin DOMAIN graph_functions'
              /\ \A call \in DOMAIN graph_calls' : call[1] # f /\ call[2] # f
              /\ DOMAIN graph_functions' = DOMAIN graph_functions \ { f }
              /\ \A g \in DOMAIN graph_functions' :
                    /\ cumulative_time(graph_functions', graph_calls', g)
                           = cumulative_time(graph_functions, graph_calls, g)
                    /\ primitive_callcount(graph_functions', graph_calls', g)
                           = primitive_callcount(graph_functions, graph_calls, g)
                    /\ total_callcount(graph_functions', graph_calls', g)
                           = total_callcount(graph_functions, graph_calls, g)]_vars

\* g called f, recursively, and nothing else is in the graph; f was
\* treated as built-in, and g has the cumulative time of the Call as its
\* inline time.
C24_CallerKeepsTime ==
    /\ DOMAIN graph_functions = { "g" }
    /\ graph_calls = << >>
    /\ graph_functions["g"] =
           [inline_time_offset |-> 2, primitive_callcount_offset |-> 0,
            total_callcount_offset |-> 0]

----------------------------------------------------------------------------
(* naive_schoof.py and reduced_computation_schoof.py: the moduli of the
   congruences that frobenius_trace collects *)

MaxCharacteristic == 200

\* The moduli with a prime bound that is computed without shunning the
\* characteristic.
NaiveModuliUnshunned(p) ==
    LET trace_range == search_range("naive", p)
        upper_prime_bound == inverse_primorial(trace_range.len, 0)
    IN  << 2 >> \o SelectSeq(primes_range(3, upper_prime_bound + 1),
                            LAMBDA prime : prime # p)

\* The moduli of trace_congruences in the naive frobenius_trace( curve ) over
\* the field of p elements: frobenius_trace_mod_2 is always appended, then one
\* congruence for every prime from 3 to the bound except the characteristic.
NaiveModuli(p) ==
    LET trace_range == search_range("naive", p)
        upper_prime_bound == inverse_primorial(trace_range.len, p)
    IN  << 2 >> \o SelectSeq(primes_range(3, upper_prime_bound + 1),
                            LAMBDA prime : prime # p)

\* The moduli of trace_congruences in the reduced frobenius_trace( curve ):
\* 2 comes first if it is a torsion prime, then the other torsion primes.
ReducedModuli(p) ==
    LET trace_range == search_range("reduced", p)
        primes == greedy_prime_factors(trace_range.len, p)
        has_two == \E i \in 1..Len(primes) : primes[i] = 2
    IN  (IF has_two THEN << 2 >> ELSE << >>)
            \o SelectSeq(primes, LAMBDA prime : prime # 2)

Characteristics == { p \in 5..MaxCharacteristic : IsPrime(p) }

InitModuli ==
    /\ debug = TRUE
    /\ invocation \in { Invocation(function, << p >>) :
                            function \in { "naive", "reduced" }, p \in Characteristics }
    /\ outcome = NotCalled
    /\ OthersIdle("call")

\* The congruences of naive_schoof.frobenius_trace.
NaiveFrobeniusTrace ==
    Return("naive", Ok(NaiveModuli(invocation.arguments[1])))

\* The congruences of reduced_computation_schoof.frobenius_trace.
ReducedFrobeniusTrace ==
    Return("reduced", Ok(ReducedModuli(invocation.arguments[1])))

NextModuli == NaiveFrobeniusTrace \/ ReducedFrobeniusTrace

SpecModuli == InitModuli /\ [][NextModuli]_vars

\* C25: in both variants and for every prime p >= 5 the moduli handed to
\* solve_congruence_equations are a non-empty list of distinct primes, none
\* of them p, whose product is at least the length of the search range
\* (2p + 1 in the naive variant, 4 * ceil(sqrt(p)) + 1 in the reduced one), so
\* representative_in_range does not find the range longer than the modulus
\* and returns every trace of the range from its class.
C25_ModuliCoverSearchRange ==
    (Returned("naive") \/ Returned("reduced")) =>
        LET p == invocation.arguments[1]
            trace_range == search_range(invocation.function, p)
        IN  /\ outcome.val # << >>
            /\ PrimeFactorsFor(outcome.val, trace_range.len, p)
            /\ trace_range.len =
                   (IF Returned("naive") THEN 2 * p + 1 ELSE 4 * CeilSqrt(p) + 1)
            /\ \A t \in trace_range.first..(trace_range.first + trace_range.len - 1) :
                   representative_in_range(
                       [remainder |-> PyMod(t, ProductOf(outcome.val)),
                        modulus |-> ProductOf(outcome.val)],
                       trace_range) = Ok(t)

\* Both variants at work: the naive one has skipped the characteristic 5
\* between 3 and 7, the reduced one has cancelled 3 from 2 * 3 * 7.
C25_CharacteristicSkipped ==
    /\ Returned("naive")
    /\ invocation.arguments = << 5 >>
    /\ outcome.val = << 2, 3, 7 >>

----------------------------------------------------------------------------
(* elliptic_curves/naive.py: the sum of two finite points *)

AdditionFields == { 3, 5, 7 }

\* The finite points of the curve E: the pairs that __init__ accepts with
\* assertions enabled.
FinitePoints(E) ==
    { Point(E, TRUE, c[1], c[2]).val :
          c \in { d \in (0..(E.field - 1)) \X (0..(E.field - 1)) :
                      Point(E, TRUE, d[1], d[2]).exc = "none" } }

\* All curve templates over the fields, the singular ones included.
AdditionCurves ==
    UNION { [field : { p }, A : 0..(p - 1), B : 0..(p - 1)] : p \in AdditionFields }

InitAddition ==
    /\ debug \in BOOLEAN
    /\ invocation \in UNION { { Invocation("__add__", << E, P, Q >>) :
                                    P \in FinitePoints(E), Q \in FinitePoints(E) } :
                              E \in AdditionCurves }
    /\ outcome = NotCalled
    /\ OthersIdle("call")

\* P + Q
Add ==
    Return("__add__", PointAdd(invocation.arguments[1], debug,
                               invocation.arguments[2], invocation.arguments[3]))

NextAddition == Add

SpecAddition == InitAddition /\ [][NextAddition]_vars

\* C26: for finite points P and Q of one curve over a field of
\* characteristic other than 2, P + Q is the point at infinity exactly when
\* Q == -P, the doubling of a point with y = 0 included; in every other case
\* the denominator of the slope (2 y for Q == P, x_Q - x_P otherwise) is not
\* zero and the addition raises no ZeroDivisionError.
C26_InfinityExactlyForNegative ==
    Returned("__add__") =>
        LET E == invocation.arguments[1]
            P == invocation.arguments[2]
            Q == invocation.arguments[3]
            p == E.field
            negative == PointNeg(E, debug, P)
        IN  /\ negative.exc = "none"
            /\ (outcome.exc = "none" /\ outcome.val.infinite)
                   <=> PointEq(Q, negative.val)
            /\ ~PointEq(Q, negative.val) =>
                   IF PointEq(Q, P) THEN QMul(p, QuotientClass(p, 2), P.y) # 0
                   ELSE QSub(p, Q.x, P.x) # 0
            /\ outcome.exc # "ZeroDivisionError"

\* A point with y = 0 has been doubled.
C26_DoubledPointOfOrderTwo ==
    /\ Returned("__add__")
    /\ invocation.arguments[2] = invocation.arguments[3]
    /\ invocation.arguments[2].y = 0
    /\ outcome = Ok(Infinity)

----------------------------------------------------------------------------
(* rings/polynomials/naive.py and rings/quotients/naive.py: division by the
   zero polynomial *)

\* The division operators of rings/__init__.py on top of __divmod__, and
\* GenericQuotientClass.__init__, which is representative % modulus; an
\* exception of __divmod__ passes through all of them.
DivisionOperator(function, F, a, b) ==
    LET pair == PolyDivMod(F, a, b)
    IN  IF pair.exc # "none" THEN pair
        ELSE IF function = "__divmod__" THEN pair
        ELSE IF function = "__floordiv__" THEN Ok(pair.val[1])
        ELSE Ok(pair.val[2])

DivisionFunctions == { "__divmod__", "__floordiv__", "__mod__", "GenericQuotientClass" }

InitDivision ==
    /\ debug = TRUE
    /\ invocation \in UNION { { Invocation(function, << F, a, b >>) :
                                    function \in DivisionFunctions,
                                    a \in PolynomialsBelow(F, MaxCoefficients),
                                    b \in PolynomialsBelow(F, MaxCoefficients - 1) } :
                              F \in CoefficientRingSizes }
    /\ outcome = NotCalled
    /\ OthersIdle("call")

\* divmod( a, b ), a // b, a % b or the quotient class of a modulo b.
Divide ==
    \E function \in DivisionFunctions :
        Return(function,
               DivisionOperator(function, invocation.arguments[1],
                                invocation.arguments[2], invocation.arguments[3]))

\* With the zero polynomial as divisor and another dividend, the quotient
\* list [ zero ] * (self.degree() + 2^30 + 1) is built before the first
\* index is used; the interpreter raises MemoryError if it cannot hold it.
QuotientListTooLarge ==
    \E function \in DivisionFunctions :
        /\ invocation.arguments[2] # << >>
        /\ invocation.arguments[3] = << >>
        /\ Return(function, Raise("MemoryError"))

NextDivision == Divide \/ QuotientListTooLarge

SpecDivision == InitDivision /\ [][NextDivision]_vars

\* C27: dividing a polynomial by the zero polynomial with divmod, // or %,
\* and so building a quotient-ring element whose modulus is the zero
\* polynomial, raises ZeroDivisionError: no other exception and no value.
C27_ZeroPolynomialDivisor ==
    (outcome # NotCalled /\ invocation.arguments[3] = << >>)
        => outcome.exc = "ZeroDivisionError"

\* What the division by the zero polynomial does: it raises IndexError, or
\* MemoryError, and ZeroDivisionError only comes from a coefficient division.
C27_IndexOrMemoryError ==
    outcome # NotCalled =>
        IF invocation.arguments[3] = << >>
        THEN outcome.exc \in { "IndexError", "MemoryError" }
        ELSE outcome.exc \in { "none", "ZeroDivisionError" }

\* x % 0 has raised IndexError.
C27_RemainderModuloZero ==
    /\ Returned("__mod__")
    /\ invocation.arguments[2] = << 0, 1 >>
    /\ invocation.arguments[3] = << >>
    /\ outcome.exc = "IndexError"

----------------------------------------------------------------------------
(* support/quotients.py: one congruence alone *)

\* The call has returned the congruence it was given.
ReturnsTheCongruence ==
    /\ crtResult.exc = "none"
    /\ crtResult.val.modulus = congruences[1].modulus
    /\ crtResult.val.remainder =
           PyMod(congruences[1].remainder, congruences[1].modulus)

\* C28: solve_congruence_equations called with exactly one congruence
\* r mod m returns a congruence with the modulus m and the remainder r mod m
\* and raises nothing, also when the debug assertions are enabled.
C28_SingleCongruence ==
    (crtResult # NotCalled /\ Len(congruences) = 1) => ReturnsTheCongruence

\* The same without the debug assertions.
C28_SingleCongruenceOptimized ==
    (crtResult # NotCalled /\ Len(congruences) = 1 /\ ~debug) => ReturnsTheCongruence

\* The list [2 mod 3] under __debug__: there is no pair of congruences, the
\* assertion compares the empty set with {1} and fails.
C28_AssertionOnSingleCongruence ==
    /\ debug
    /\ congruences = << Congruence(2, 3) >>
    /\ crtResult = Raise("AssertionError")

----------------------------------------------------------------------------
(* elliptic_curves/division_polynomials/naive.py: one DivisionPolynomialsList
   indexed by several threads.  The interpreter switches threads between
   statements; a host that guards the list lets one thread at a time run
   __getitem__.  shared_list.lists holds every list object that was bound to
   self.__psi, shared_list.psi is the one bound now (0 is None), and an entry
   of a list is << >> for None or << polynomial >>. *)

MaxThreads == 2

MaxRequest == 6

Threads == 1..MaxThreads

ThreadCurve == [field |-> 5, A |-> 1, B |-> 1]

NoThread ==
    [pc |-> "idle", l |-> 0, psi |-> 0, j |-> 0, result |-> NotCalled]

InitThreads ==
    /\ debug = TRUE
    /\ shared_list = [lists |-> << >>, psi |-> 0, y |-> FALSE]
    /\ threads = [t \in Threads |-> NoThread]
    /\ mutex \in [guarded : BOOLEAN, holder : { 0 }]
    /\ OthersIdle("thread")

UnchangedByThreads ==
    /\ UNCHANGED debug
    /\ OthersUnchanged("thread")

\* The thread leaves __getitem__, with a value or with an exception, and
\* the guard is free again.
Leave(t, result) ==
    /\ threads' = [threads EXCEPT ![t] = [NoThread EXCEPT !.result = result]]
    /\ mutex' = [mutex EXCEPT !.holder = 0]

\* The thread goes on to the statement at position pc.
Proceed(t, pc_, changes) ==
    threads' = [threads EXCEPT ![t] = [pc |-> pc_] @@ changes @@ threads[t]]

\* __getitem__( index ): a negative index raises IndexError, any other one
\* enters __generate_up_to.  A guarded list is entered by one thread at a
\* time.
Call(t) ==
    /\ threads[t].pc = "idle"
    /\ mutex.guarded => mutex.holder = 0
    /\ \E index \in (-1)..MaxRequest :
          IF index < 0
          THEN Leave(t, Raise("IndexError"))
          ELSE /\ Proceed(t, "check", [l |-> index, result |-> NotCalled])
               /\ mutex' = [mutex EXCEPT !.holder = IF mutex.guarded THEN t ELSE 0]
    /\ UNCHANGED shared_list
    /\ UnchangedByThreads

\* if not self.__psi
Check(t) ==
    /\ threads[t].pc = "check"
    /\ Proceed(t, IF shared_list.psi = 0 THEN "allocate" ELSE "locals", << >>)
    /\ UNCHANGED << shared_list, mutex >>
    /\ UnchangedByThreads

\* self.__psi = 5 * [ None ]
Allocate(t) ==
    /\ threads[t].pc = "allocate"
    /\ shared_list' = [shared_list EXCEPT
                          !.lists = Append(@, [i \in 1..5 |-> << >>]),
                          !.psi = Len(shared_list.lists) + 1]
    /\ Proceed(t, "set_y", << >>)
    /\ UNCHANGED mutex
    /\ UnchangedByThreads

\* self.__y = R( 0, 1 )
SetY(t) ==
    /\ threads[t].pc = "set_y"
    /\ shared_list' = [shared_list EXCEPT !.y = TRUE]
    /\ Proceed(t, "alias", << >>)
    /\ UNCHANGED mutex
    /\ UnchangedByThreads

\* psi = self.__psi in the initialisation
Alias(t) ==
    /\ threads[t].pc = "alias"
    /\ Proceed(t, "fill", [psi |-> shared_list.psi, j |-> 0])
    /\ UNCHANGED << shared_list, mutex >>
    /\ UnchangedByThreads

\* psi[0] = ..., psi[1] = ..., to psi[4] = ...: one assignment.
Fill(t) ==
    /\ threads[t].pc = "fill"
    /\ LET j == threads[t].j
       IN  /\ shared_list' =
                  [shared_list EXCEPT
                      !.lists[threads[t].psi][j + 1] = << BasePolynomials(ThreadCurve)[j + 1] >>]
           /\ Proceed(t, IF j = 4 THEN "locals" ELSE "fill", [j |-> j + 1])
    /\ UNCHANGED mutex
    /\ UnchangedByThreads

\* psi = self.__psi before the loop
Locals(t) ==
    /\ threads[t].pc = "locals"
    /\ Proceed(t, "read_y", [psi |-> shared_list.psi])
    /\ UNCHANGED << shared_list, mutex >>
    /\ UnchangedByThreads

\* y = self.__y: the attribute exists once the initialisation has set it.
ReadY(t) ==
    /\ threads[t].pc = "read_y"
    /\ IF shared_list.y
       THEN Proceed(t, "range", << >>) /\ UNCHANGED mutex
       ELSE Leave(t, Raise("AttributeError"))
    /\ UNCHANGED shared_list
    /\ UnchangedByThreads

\* A range that begins at the last index of the cache.
FirstIndexAtLast(cache) == Len(cache) - 1

\* The first index of range( len(self.__psi), l+1 ).
FirstIndex(cache) == Len(cache)

\* for j in range( len(self.__psi), l+1 ): the range is fixed here.
Range(t) ==
    /\ threads[t].pc = "range"
    /\ Proceed(t, "loop", [j |-> FirstIndex(shared_list.lists[shared_list.psi])])
    /\ UNCHANGED << shared_list, mutex >>
    /\ UnchangedByThreads

\* The entries of the list that the loop reads for index j.
EntriesRead(j) ==
    LET k == j \div 2
    IN  IF j % 2 = 1 THEN { k + 2, k, k + 1, k - 1 }
        ELSE { k, k + 2, k - 1, k - 2, k + 1 }

\* The exception of the first operation on None: a product or power with
\* None raises TypeError, a method call on None raises AttributeError.
OnNone(ps, j) ==
    LET k == j \div 2
        none(i) == ps[i + 1] = << >>
    IN  IF j % 2 = 1 THEN "TypeError"
        ELSE IF k % 2 = 0
        THEN (IF none(k) THEN "AttributeError" ELSE "TypeError")
        ELSE IF none(k) \/ none(k - 1) THEN "AttributeError"
        ELSE IF none(k + 2) THEN "TypeError"
        ELSE IF none(k + 1) THEN "AttributeError"
        ELSE "TypeError"

\* One pass of the loop: psi.append( ... ) with the entries of the local
\* list psi, or the end of the loop.
Loop(t) ==
    /\ threads[t].pc = "loop"
    /\ LET j == threads[t].j
           ps == shared_list.lists[threads[t].psi]
           polynomials ==
               [i \in DOMAIN ps |->
                   IF ps[i] = << >> THEN ZeroCurvePolynomial ELSE ps[i][1]]
       IN  IF j > threads[t].l
           THEN /\ Proceed(t, "return", << >>)
                /\ UNCHANGED << shared_list, mutex >>
           ELSE IF \E i \in EntriesRead(j) : i + 1 > Len(ps)
           THEN Leave(t, Raise("IndexError")) /\ UNCHANGED shared_list
           ELSE IF \E i \in EntriesRead(j) : ps[i + 1] = << >>
           THEN Leave(t, Raise(OnNone(ps, j))) /\ UNCHANGED shared_list
           ELSE /\ shared_list' =
                       [shared_list EXCEPT
                           !.lists[threads[t].psi] =
                               Append(@, << NextPolynomial(ThreadCurve, polynomials, j) >>)]
                /\ Proceed(t, "loop", [j |-> j + 1])
                /\ UNCHANGED mutex
    /\ UnchangedByThreads

\* return self.__psi[ index ]
ReturnEntry(t) ==
    /\ threads[t].pc = "return"
    /\ LET list == shared_list.lists[shared_list.psi]
       IN  IF threads[t].l + 1 > Len(list) THEN Leave(t, Raise("IndexError"))
           ELSE Leave(t, Ok(list[threads[t].l + 1]))
    /\ UNCHANGED shared_list
    /\ UnchangedByThreads

NextThreads ==
    \E t \in Threads :
        \/ Call(t)
        \/ Check(t)
        \/ Allocate(t)
        \/ SetY(t)
        \/ Alias(t)
        \/ Fill(t)
        \/ Locals(t)
        \/ ReadY(t)
        \/ Range(t)
        \/ Loop(t)
        \/ ReturnEntry(t)

SpecThreads == InitThreads /\ [][NextThreads]_vars

\* The division polynomials psi_0 to psi_n as one thread alone computes them.
DivisionPolynomialsTo(n) ==
    LET cache == generate_up_to(ThreadCurve, << >>, 0, n)
    IN  [i \in DOMAIN cache |-> cache[i].polynomial]

\* Every entry of every list that is not None is the division polynomial of
\* its position.
EntriesAreDivisionPolynomials ==
    \A n \in DOMAIN shared_list.lists :
        LET list == shared_list.lists[n]
            reference == DivisionPolynomialsTo(Len(list) - 1)
        IN  \A i \in DOMAIN list : list[i] # << >> => list[i][1] = reference[i]

\* C29: when the whole of the cache extension runs under mutual exclusion,
\* position j of the cache holds psi_j for every cached j in every reachable
\* state, no entry is None while no thread is inside, and every thread gets
\* psi_index; without a lock an interleaving of two threads leaves a cache
\* with a position that does not hold its division polynomial, as
\* C29_BothAppended shows.
C29_GuardedCache ==
    mutex.guarded =>
        /\ EntriesAreDivisionPolynomials
        /\ Len(shared_list.lists) <= 1
        /\ mutex.holder = 0 =>
               \A n \in DOMAIN shared_list.lists :
                   \A i \in DOMAIN shared_list.lists[n] : shared_list.lists[n][i] # << >>
        /\ \A t \in Threads :
               /\ threads[t].result.exc \in { "pending", "none", "IndexError" }
               /\ threads[t].result.exc = "none" =>
                      \E l \in 0..MaxRequest :
                          threads[t].result.val = << DivisionPolynomialsTo(l)[l + 1] >>

\* Without a lock both threads have appended an entry for index 5: position
\* 6 of the cache holds psi_5.
C29_BothAppended ==
    /\ ~mutex.guarded
    /\ shared_list.psi # 0
    /\ \A t \in Threads : threads[t].pc = "idle" /\ threads[t].result.exc = "none"
    /\ LET list == shared_list.lists[shared_list.psi]
       IN  /\ Len(list) >= 7
           /\ list[7] = << DivisionPolynomialsTo(5)[6] >>
           /\ list[7] # << DivisionPolynomialsTo(6)[7] >>

\* With the lock both threads have extended the cache one after the other.
C29_ExtendedInTurn ==
    /\ mutex.guarded
    /\ mutex.holder = 0
    /\ shared_list.psi # 0
    /\ Len(shared_list.lists[shared_list.psi]) = 7
    /\ threads[1].result = Ok(<< DivisionPolynomialsTo(5)[6] >>)
    /\ threads[2].result = Ok(<< DivisionPolynomialsTo(6)[7] >>)

====
